---------------------------- MODULE Spec2Model ----------------------------
(***************************************************************************)
(* A model of sherlog's log parser (parser-wasm/src/lib.rs) and pattern    *)
(* learner (parser-wasm/src/pattern_learning.rs).                          *)
(*                                                                         *)
(* Text is modelled by TLA+ strings, one character per position, so the    *)
(* matchers, the template extractor, the fingerprint normalisation and     *)
(* the trace accumulator are computed on characters as the code does.      *)
(***************************************************************************)
EXTENDS Naturals, Integers, Sequences, FiniteSets, TLC

VARIABLES
    sess,      \* the LogParser instance (the fields of struct LogParser)
    history,   \* the lines handed to process_line so far, in order
    ret,       \* what the most recent call returned
    peer,      \* a second LogParser instance with the lines handed to it
    args       \* the arguments of the helper call under way

vars == <<sess, history, ret, peer, args>>

-----------------------------------------------------------------------------
(***************************************************************************)
(* Characters and strings (Rust str / char operations).                    *)
(***************************************************************************)

CharAt(s, i) == SubSeq(s, i, i)

CharsOf(s) == {CharAt(s, i) : i \in 1..Len(s)}

UPPER == "ABCDEFGHIJKLMNOPQRSTUVWXYZ"
LOWER == "abcdefghijklmnopqrstuvwxyz"
DIGITS == "0123456789"

Upper == CharsOf(UPPER)
Lower == CharsOf(LOWER)
Digit == CharsOf(DIGITS)

\* \w of the regex crate, on ASCII text
WordChar == Upper \cup Lower \cup Digit \cup {"_"}

\* White_Space (char::is_whitespace, and \s of the regex crate), on ASCII text
WhiteSpace == {" ", "\t", "\n", "\r", "\f"}

LowerOf == [c \in Upper |-> CharAt(LOWER, CHOOSE i \in 1..26 : CharAt(UPPER, i) = c)]
UpperOf == [c \in Lower |-> CharAt(UPPER, CHOOSE i \in 1..26 : CharAt(LOWER, i) = c)]

char_to_lowercase(c) == IF c \in Upper THEN LowerOf[c] ELSE c
char_to_uppercase(c) == IF c \in Lower THEN UpperOf[c] ELSE c

RECURSIVE to_lowercase(_)
to_lowercase(s) ==
    IF s = "" THEN ""
    ELSE char_to_lowercase(Head(s)) \o to_lowercase(Tail(s))

RECURSIVE trim_start(_)
trim_start(s) ==
    IF s # "" /\ Head(s) \in WhiteSpace THEN trim_start(Tail(s)) ELSE s

RECURSIVE trim_end(_)
trim_end(s) ==
    IF s # "" /\ CharAt(s, Len(s)) \in WhiteSpace
    THEN trim_end(SubSeq(s, 1, Len(s) - 1))
    ELSE s

\* trim left out, as in line.is_empty() for line.trim().is_empty()
trim_forgotten(s) == s

trim(s) == trim_end(trim_start(s))

starts_with(s, p) == Len(p) <= Len(s) /\ SubSeq(s, 1, Len(p)) = p

\* the substring of s that starts after the first i characters
StrFrom(s, i) == SubSeq(s, i + 1, Len(s))

\* whether p occurs in s at offset i (after the first i characters)
OccursAt(s, p, i) == i + Len(p) <= Len(s) /\ SubSeq(s, i + 1, i + Len(p)) = p

contains(s, p) == \E i \in 0..Len(s) : OccursAt(s, p, i)

\* str::replace: every non-overlapping occurrence of from, left to right
RECURSIVE replace(_, _, _)
replace(s, from, to) ==
    IF s = "" \/ from = "" THEN s
    ELSE IF OccursAt(s, from, 0) THEN to \o replace(StrFrom(s, Len(from)), from, to)
    ELSE Head(s) \o replace(Tail(s), from, to)

\* Option<T>: None is the empty tuple, Some(v) the one-element tuple
None == <<>>
Some(v) == <<v>>
is_some(o) == o # <<>>
is_none(o) == o = <<>>
unwrap(o) == o[1]

-----------------------------------------------------------------------------
(***************************************************************************)
(* The regex crate's matcher.  A pattern is a tree of nodes; Run is the    *)
(* backtracking search whose first success is the crate's leftmost-first   *)
(* match: alternatives in order, greedy repetitions longest first, lazy    *)
(* ones shortest first.  Offsets count the characters already consumed.    *)
(***************************************************************************)

Cls(set) == [t |-> "cls", set |-> set]                \* [...]
NotCls(set) == [t |-> "ncls", set |-> set]            \* [^...]
AnyChar == [t |-> "any"]                              \* .   (no line feed)
Lit(str) == [t |-> "lit", s |-> str]
Cat(rs) == [t |-> "cat", rs |-> rs]
Alt(rs) == [t |-> "alt", rs |-> rs]
\* r{min,max}; max = -1 is no upper limit
Rep(r, min, max, greedy) ==
    [t |-> "rep", r |-> r, min |-> min, max |-> max, greedy |-> greedy]
Star(r) == Rep(r, 0, -1, TRUE)                        \* r*
Plus(r) == Rep(r, 1, -1, TRUE)                        \* r+
Opt(r) == Rep(r, 0, 1, TRUE)                          \* r?
LazyStar(r) == Rep(r, 0, -1, FALSE)                   \* r*?
LazyPlus(r) == Rep(r, 1, -1, FALSE)                   \* r+?
Times(r, n) == Rep(r, n, n, TRUE)                     \* r{n}
Grp(n, r) == [t |-> "grp", n |-> n, r |-> r]          \* capture group n
Bol == [t |-> "bol"]                                  \* ^
Eol == [t |-> "eol"]                                  \* $
WordB == [t |-> "wb"]                                 \* \b
D == Cls(Digit)                                       \* \d
S == Cls(WhiteSpace)                                  \* \s

\* a compiled pattern: its tree, its number of groups, the (?i) and (?m) flags
Regex(re, groups, ci, ml) == [re |-> re, groups |-> groups, ci |-> ci, ml |-> ml]

NoSpan == <<-1, -1>>

InSet(c, set, ci) ==
    \/ c \in set
    \/ ci /\ (char_to_lowercase(c) \in set \/ char_to_uppercase(c) \in set)

LitAt(s, p, i, ci) ==
    /\ i + Len(p) <= Len(s)
    /\ IF ci THEN to_lowercase(SubSeq(s, i + 1, i + Len(p))) = to_lowercase(p)
       ELSE SubSeq(s, i + 1, i + Len(p)) = p

IsWordAt(s, i) == i >= 1 /\ i <= Len(s) /\ CharAt(s, i) \in WordChar

AtWordBoundary(s, i) == IsWordAt(s, i) # IsWordAt(s, i + 1)

AtLineStart(s, i, ml) == i = 0 \/ (ml /\ CharAt(s, i) = "\n")

AtLineEnd(s, i, ml) == i = Len(s) \/ (ml /\ CharAt(s, i + 1) = "\n")

SetMin(ns) == CHOOSE n \in ns : \A m \in ns : n <= m
SetMax(ns) == CHOOSE n \in ns : \A m \in ns : n >= m

\* whether the one-character node matches the character c
SingleOk(node, c, rx) ==
    CASE node.t = "cls" -> InSet(c, node.set, rx.ci)
      [] node.t = "ncls" -> ~InSet(c, node.set, rx.ci)
      [] node.t = "any" -> c # "\n"

\* how many consecutive characters after offset i the one-character node matches
RunLength(node, s, i, rx) ==
    LET n == Len(s) - i
    IN  CHOOSE k \in 0..n :
            /\ \A j \in 1..k : SingleOk(node, CharAt(s, i + j), rx)
            /\ k = n \/ ~SingleOk(node, CharAt(s, i + k + 1), rx)

\* Run(stack, s, i, caps, rx): match the nodes of stack, in order, from offset
\* i of s; <<>> when there is no way, else <<[end, caps]>> for the first way.
RECURSIVE Run(_, _, _, _, _)
Run(stack, s, i, caps, rx) ==
    IF stack = <<>> THEN <<[end |-> i, caps |-> caps]>>
    ELSE
    LET h == Head(stack)
        rest == Tail(stack)
    IN  CASE h.t = "cls" ->
                IF i < Len(s) /\ InSet(CharAt(s, i + 1), h.set, rx.ci)
                THEN Run(rest, s, i + 1, caps, rx) ELSE <<>>
          [] h.t = "ncls" ->
                IF i < Len(s) /\ ~InSet(CharAt(s, i + 1), h.set, rx.ci)
                THEN Run(rest, s, i + 1, caps, rx) ELSE <<>>
          [] h.t = "any" ->
                IF i < Len(s) /\ CharAt(s, i + 1) # "\n"
                THEN Run(rest, s, i + 1, caps, rx) ELSE <<>>
          [] h.t = "lit" ->
                IF LitAt(s, h.s, i, rx.ci)
                THEN Run(rest, s, i + Len(h.s), caps, rx) ELSE <<>>
          [] h.t = "cat" -> Run(h.rs \o rest, s, i, caps, rx)
          [] h.t = "alt" ->
                IF h.rs = <<>> THEN <<>>
                ELSE LET or_else(first) ==
                            IF first # <<>> THEN first
                            ELSE Run(<<Alt(Tail(h.rs))>> \o rest, s, i, caps, rx)
                     IN  or_else(Run(<<Head(h.rs)>> \o rest, s, i, caps, rx))
          [] h.t = "rep" ->
                IF h.r.t \in {"cls", "ncls", "any"}
                THEN \* one character repeated: the lengths the rest can follow,
                     \* the longest of them when greedy, the shortest when lazy
                     LET take(ok) ==
                            IF ok = {} THEN <<>>
                            ELSE Run(rest, s,
                                     i + (IF h.greedy THEN SetMax(ok) ELSE SetMin(ok)),
                                     caps, rx)
                         upto(run) ==
                            take({n \in h.min..(IF h.max >= 0 /\ h.max < run
                                                THEN h.max ELSE run) :
                                    Run(rest, s, i + n, caps, rx) # <<>>})
                     IN  upto(RunLength(h.r, s, i, rx))
                ELSE
                LET again == [h EXCEPT !.min = IF h.min > 0 THEN h.min - 1 ELSE 0,
                                       !.max = IF h.max > 0 THEN h.max - 1 ELSE h.max]
                    more == IF h.max = 0 THEN <<>>
                            ELSE Run(<<h.r, again>> \o rest, s, i, caps, rx)
                    stop == IF h.min > 0 THEN <<>> ELSE Run(rest, s, i, caps, rx)
                    or_stop(m) == IF m # <<>> THEN m ELSE stop
                    or_more(m) == IF m # <<>> THEN m ELSE more
                IN  IF h.greedy THEN or_stop(more) ELSE or_more(stop)
          [] h.t = "grp" ->
                Run(<<[t |-> "open", n |-> h.n], h.r, [t |-> "close", n |-> h.n]>> \o rest,
                    s, i, caps, rx)
          [] h.t = "open" ->
                Run(rest, s, i, [caps EXCEPT ![h.n] = <<i, -1>>], rx)
          [] h.t = "close" ->
                Run(rest, s, i, [caps EXCEPT ![h.n] = <<caps[h.n][1], i>>], rx)
          [] h.t = "bol" ->
                IF AtLineStart(s, i, rx.ml) THEN Run(rest, s, i, caps, rx) ELSE <<>>
          [] h.t = "eol" ->
                IF AtLineEnd(s, i, rx.ml) THEN Run(rest, s, i, caps, rx) ELSE <<>>
          [] h.t = "wb" ->
                IF AtWordBoundary(s, i) THEN Run(rest, s, i, caps, rx) ELSE <<>>

\* a group that took part in the match has both ends set
Closed(caps) == [n \in DOMAIN caps |-> IF caps[n][2] < 0 THEN NoSpan ELSE caps[n]]

\* the leftmost match starting at offset from or later:
\* <<>> or <<[start, end, caps]>>
FindFrom(rx, s, from) ==
    LET leftmost(runs) ==
            LET found == {r \in runs : r[2] # <<>>}
            IN  IF found = {} THEN <<>>
                ELSE LET m == CHOOSE r \in found : \A q \in found : r[1] <= q[1]
                     IN  <<[start |-> m[1], end |-> m[2][1].end,
                            caps |-> Closed(m[2][1].caps)]>>
    IN  leftmost({<<i, Run(<<rx.re>>, s, i, [n \in 1..rx.groups |-> NoSpan], rx)>> :
                    i \in from..Len(s)})

\* Regex::is_match
is_match(rx, s) == FindFrom(rx, s, 0) # <<>>

\* Regex::captures
captures(rx, s) == FindFrom(rx, s, 0)

\* Captures::get(n) as Option<text>; get(0) is the whole match
cap_get(m, s, n) ==
    IF n = 0 THEN Some(SubSeq(s, m.start + 1, m.end))
    ELSE IF m.caps[n] = NoSpan THEN None
    ELSE Some(SubSeq(s, m.caps[n][1] + 1, m.caps[n][2]))

\* Regex::captures_iter: the successive non-overlapping matches; the text of
\* each whole match, in order
RECURSIVE MatchesFrom(_, _, _)
MatchesFrom(rx, s, from) ==
    LET next(f) ==
            IF f = <<>> THEN <<>>
            ELSE <<SubSeq(s, f[1].start + 1, f[1].end)>>
                 \o MatchesFrom(rx, s, IF f[1].end > f[1].start THEN f[1].end
                                       ELSE f[1].end + 1)
    IN  next(FindFrom(rx, s, from))

captures_iter(rx, s) == MatchesFrom(rx, s, 0)

-----------------------------------------------------------------------------
(***************************************************************************)
(* The lazy_static matcher set of lib.rs.                                  *)
(***************************************************************************)

\* (?m)^.*?(Error|Exception|TypeError|ReferenceError|SyntaxError|RangeError|URIError|EvalError):\s*(.+?)$
NODE_ERROR ==
    Regex(Cat(<<Bol, LazyStar(AnyChar),
                Grp(1, Alt(<<Lit("Error"), Lit("Exception"), Lit("TypeError"),
                             Lit("ReferenceError"), Lit("SyntaxError"),
                             Lit("RangeError"), Lit("URIError"), Lit("EvalError")>>)),
                Lit(":"), Star(S), Grp(2, LazyPlus(AnyChar)), Eol>>),
          2, FALSE, TRUE)

\* at\s+(?:(.+?)\s+\()?([^:]+):(\d+):(\d+)\)?
NODE_STACK ==
    Regex(Cat(<<Lit("at"), Plus(S),
                Opt(Cat(<<Grp(1, LazyPlus(AnyChar)), Plus(S), Lit("(")>>)),
                Grp(2, Plus(NotCls({":"}))), Lit(":"), Grp(3, Plus(D)),
                Lit(":"), Grp(4, Plus(D)), Opt(Lit(")"))>>),
          4, FALSE, FALSE)

\* (?m)^(.*?)(Error|Exception|Warning):\s*(.+?)$
PYTHON_ERROR ==
    Regex(Cat(<<Bol, Grp(1, LazyStar(AnyChar)),
                Grp(2, Alt(<<Lit("Error"), Lit("Exception"), Lit("Warning")>>)),
                Lit(":"), Star(S), Grp(3, LazyPlus(AnyChar)), Eol>>),
          3, FALSE, TRUE)

\* File\s+"([^"]+)",\s+line\s+(\d+)
PYTHON_STACK ==
    Regex(Cat(<<Lit("File"), Plus(S), Lit("\""), Grp(1, Plus(NotCls({"\""}))),
                Lit("\","), Plus(S), Lit("line"), Plus(S), Grp(2, Plus(D))>>),
          2, FALSE, FALSE)

\* (?m)^.*?(Exception|Error):\s*(.+?)$
JAVA_ERROR ==
    Regex(Cat(<<Bol, LazyStar(AnyChar),
                Grp(1, Alt(<<Lit("Exception"), Lit("Error")>>)),
                Lit(":"), Star(S), Grp(2, LazyPlus(AnyChar)), Eol>>),
          2, FALSE, TRUE)

\* at\s+([^\(]+)\(([^:]+):(\d+)\)
JAVA_STACK ==
    Regex(Cat(<<Lit("at"), Plus(S), Grp(1, Plus(NotCls({"("}))), Lit("("),
                Grp(2, Plus(NotCls({":"}))), Lit(":"), Grp(3, Plus(D)), Lit(")")>>),
          3, FALSE, FALSE)

\* ^\d{4}-\d{2}-\d{2}[T\s]\d{2}:\d{2}:\d{2}[^\[\]]*\s+   (shared by LOG_LEVEL_*)
LogLevelPrefix ==
    <<Bol, Times(D, 4), Lit("-"), Times(D, 2), Lit("-"), Times(D, 2),
      Cls({"T"} \cup WhiteSpace), Times(D, 2), Lit(":"), Times(D, 2), Lit(":"),
      Times(D, 2), Star(NotCls({"[", "]"})), Plus(S)>>

\* (ERROR|FATAL|CRITICAL)
ErrorWords == Alt(<<Lit("ERROR"), Lit("FATAL"), Lit("CRITICAL")>>)
\* (WARN|WARNING)
WarnWords == Alt(<<Lit("WARN"), Lit("WARNING")>>)
\* (INFO|DEBUG|TRACE)
InfoWords == Alt(<<Lit("INFO"), Lit("DEBUG"), Lit("TRACE")>>)

\* (?i)^\d{4}-\d{2}-\d{2}[T\s]\d{2}:\d{2}:\d{2}[^\[\]]*\s+(ERROR|FATAL|CRITICAL)\b
LOG_LEVEL_ERROR ==
    Regex(Cat(LogLevelPrefix \o <<Grp(1, ErrorWords), WordB>>), 1, TRUE, FALSE)

\* (?i)^\d{4}-\d{2}-\d{2}[T\s]\d{2}:\d{2}:\d{2}[^\[\]]*\s+(WARN|WARNING)\b
LOG_LEVEL_WARN ==
    Regex(Cat(LogLevelPrefix \o <<Grp(1, WarnWords), WordB>>), 1, TRUE, FALSE)

\* (?i)^\d{4}-\d{2}-\d{2}[T\s]\d{2}:\d{2}:\d{2}[^\[\]]*\s+(INFO|DEBUG|TRACE)\b
LOG_LEVEL_INFO ==
    Regex(Cat(LogLevelPrefix \o <<Grp(1, InfoWords), WordB>>), 1, TRUE, FALSE)

\* (?i)\b(ERROR|FATAL|CRITICAL)\b
GENERIC_ERROR == Regex(Cat(<<WordB, Grp(1, ErrorWords), WordB>>), 1, TRUE, FALSE)

\* (?i)\b(WARN|WARNING)\b
GENERIC_WARN == Regex(Cat(<<WordB, Grp(1, WarnWords), WordB>>), 1, TRUE, FALSE)

\* (?i)\b(INFO|DEBUG|TRACE)\b
GENERIC_INFO == Regex(Cat(<<WordB, Grp(1, InfoWords), WordB>>), 1, TRUE, FALSE)

\* (\d{4}-\d{2}-\d{2}[T\s]\d{2}:\d{2}:\d{2}(?:\.\d{3})?(?:Z|[+-]\d{2}:?\d{2})?)
TIMESTAMP ==
    Regex(Grp(1, Cat(<<Times(D, 4), Lit("-"), Times(D, 2), Lit("-"), Times(D, 2),
                       Cls({"T"} \cup WhiteSpace), Times(D, 2), Lit(":"),
                       Times(D, 2), Lit(":"), Times(D, 2),
                       Opt(Cat(<<Lit("."), Times(D, 3)>>)),
                       Opt(Alt(<<Lit("Z"),
                                 Cat(<<Cls({"+", "-"}), Times(D, 2), Opt(Lit(":")),
                                       Times(D, 2)>>)>>))>>)),
          1, FALSE, FALSE)

\* ^\s*([^\s]+)\(([^)]*)\)\s*$|^\s+([^:]+):(\d+)\s+[+0-9a-fx]+
GO_STACK ==
    Regex(Alt(<<Cat(<<Bol, Star(S), Grp(1, Plus(NotCls(WhiteSpace))), Lit("("),
                      Grp(2, Star(NotCls({")"}))), Lit(")"), Star(S), Eol>>),
                Cat(<<Bol, Plus(S), Grp(3, Plus(NotCls({":"}))), Lit(":"),
                      Grp(4, Plus(D)), Plus(S),
                      Plus(Cls({"+", "a", "b", "c", "d", "e", "f", "x"} \cup Digit))>>)>>),
          4, FALSE, FALSE)

\* at\s+([^\(]+)\s+\(([^:]+):(\d+):(\d+)\)
RUST_PANIC ==
    Regex(Cat(<<Lit("at"), Plus(S), Grp(1, Plus(NotCls({"("}))), Plus(S), Lit("("),
                Grp(2, Plus(NotCls({":"}))), Lit(":"), Grp(3, Plus(D)), Lit(":"),
                Grp(4, Plus(D)), Lit(")")>>),
          4, FALSE, FALSE)

\* (?i)^\s*(?:Caused by|Suppressed):\s*(.+)
CAUSED_BY ==
    Regex(Cat(<<Bol, Star(S), Alt(<<Lit("Caused by"), Lit("Suppressed")>>), Lit(":"),
                Star(S), Grp(1, Plus(AnyChar))>>),
          1, TRUE, FALSE)

\* ^\s*(?:\d+\s*[|>]|>)\s*.+
CODE_CONTEXT ==
    Regex(Cat(<<Bol, Star(S),
                Alt(<<Cat(<<Plus(D), Star(S), Cls({"|", ">"})>>), Lit(">")>>),
                Star(S), Plus(AnyChar)>>),
          0, FALSE, FALSE)

\* [a-f0-9]
Hex == Cls({"a", "b", "c", "d", "e", "f"} \cup Digit)

\* \b[a-f0-9]{8}-[a-f0-9]{4}-[a-f0-9]{4}-[a-f0-9]{4}-[a-f0-9]{12}\b
VAR_UUID ==
    Regex(Cat(<<WordB, Times(Hex, 8), Lit("-"), Times(Hex, 4), Lit("-"), Times(Hex, 4),
                Lit("-"), Times(Hex, 4), Lit("-"), Times(Hex, 12), WordB>>),
          0, FALSE, FALSE)

\* \b(?:\d{1,3}\.){3}\d{1,3}\b
VAR_IP ==
    Regex(Cat(<<WordB, Times(Cat(<<Rep(D, 1, 3, TRUE), Lit(".")>>), 3),
                Rep(D, 1, 3, TRUE), WordB>>),
          0, FALSE, FALSE)

\* \b\d{3,}\b: the numeric-id matcher with its threshold one digit lower
VAR_NUMERIC_ID_from_three ==
    Regex(Cat(<<WordB, Rep(D, 3, -1, TRUE), WordB>>), 0, FALSE, FALSE)

\* \b\d{4,}\b
VAR_NUMERIC_ID == Regex(Cat(<<WordB, Rep(D, 4, -1, TRUE), WordB>>), 0, FALSE, FALSE)

-----------------------------------------------------------------------------
(***************************************************************************)
(* Numbers.  A u32 is held as its decimal numeral without leading zeros,   *)
(* so the whole 32-bit range is exact: parsing normalises the digits and   *)
(* rejects what does not fit, printing gives the numeral back.             *)
(***************************************************************************)

DigitVal(c) == (CHOOSE i \in 1..10 : CharAt(DIGITS, i) = c) - 1

U32_MAX == "4294967295"

RECURSIVE StripZeros(_)
StripZeros(ds) == IF Len(ds) > 1 /\ Head(ds) = "0" THEN StripZeros(Tail(ds)) ELSE ds

\* numerals of equal length compare digit by digit
RECURSIVE DigitsLeq(_, _)
DigitsLeq(a, b) ==
    IF a = "" THEN TRUE
    ELSE IF Head(a) # Head(b) THEN DigitVal(Head(a)) < DigitVal(Head(b))
    ELSE DigitsLeq(Tail(a), Tail(b))

NumeralLeq(a, b) == Len(a) < Len(b) \/ (Len(a) = Len(b) /\ DigitsLeq(a, b))

\* a parse that saturates: u32::MAX for a numeral above it
parse_u32_saturating(ds) ==
    IF ds = "" \/ \E i \in 1..Len(ds) : CharAt(ds, i) \notin Digit THEN None
    ELSE IF NumeralLeq(StripZeros(ds), U32_MAX) THEN Some(StripZeros(ds))
    ELSE Some(U32_MAX)

\* str::parse::<u32>() on a run of digits: None when empty or above u32::MAX
parse_u32(ds) ==
    IF ds = "" \/ \E i \in 1..Len(ds) : CharAt(ds, i) \notin Digit THEN None
    ELSE IF NumeralLeq(StripZeros(ds), U32_MAX) THEN Some(StripZeros(ds))
    ELSE None

\* u32::to_string
u32_to_string(n) == n

RECURSIVE usize_to_string(_)
usize_to_string(n) ==
    IF n < 10 THEN CharAt(DIGITS, n + 1)
    ELSE usize_to_string(n \div 10) \o CharAt(DIGITS, (n % 10) + 1)

\* opt.and_then(|m| m.parse::<u32>().ok())
and_then_parse(o) == IF is_some(o) THEN parse_u32(unwrap(o)) ELSE None

\* str::split(sep) for a one-character separator
RECURSIVE split(_, _)
split(s, sep) ==
    IF \A i \in 1..Len(s) : CharAt(s, i) # sep THEN <<s>>
    ELSE LET k == SetMin({i \in 1..Len(s) : CharAt(s, i) = sep})
         IN  <<SubSeq(s, 1, k - 1)>> \o split(SubSeq(s, k + 1, Len(s)), sep)

-----------------------------------------------------------------------------
(***************************************************************************)
(* Helper functions of lib.rs.                                             *)
(***************************************************************************)

\* blake3::hash(..).to_hex(): collision-free on the inputs met here, so the
\* digest is the tagged input
blake3_hex(bytes) == "blake3(" \o bytes \o ")"

\* generate_fingerprint hashing the template as written, case and all
generate_fingerprint_case_kept(template, file, line) ==
    LET file_part == IF is_some(file) THEN unwrap(file) ELSE ""
        line_part == IF is_some(line) THEN u32_to_string(unwrap(line)) ELSE ""
    IN  blake3_hex(trim(template) \o ":" \o file_part \o ":" \o line_part)

generate_fingerprint(template, file, line) ==
    LET file_part == IF is_some(file) THEN unwrap(file) ELSE ""
        line_part == IF is_some(line) THEN u32_to_string(unwrap(line)) ELSE ""
        combined == trim(to_lowercase(template)) \o ":" \o file_part \o ":" \o line_part
    IN  blake3_hex(combined)

extract_timestamp(line) ==
    LET map(cap) == IF cap = <<>> THEN None ELSE cap_get(cap[1], line, 1)
    IN  map(captures(TIMESTAMP, line))

Variable(placeholder, value, var_type) ==
    [placeholder |-> placeholder, value |-> value, var_type |-> var_type]

\* one pass of extract_template: for every value, in order, push a Variable
\* and replace the value wherever it occurs in the template
RECURSIVE TemplatePass(_, _, _, _)
TemplatePass(tv, values, placeholder, var_type) ==
    IF values = <<>> THEN tv
    ELSE TemplatePass(
            [template |-> replace(tv.template, Head(values), placeholder),
             variables |-> Append(tv.variables,
                                  Variable(placeholder, Head(values), var_type))],
            Tail(values), placeholder, var_type)

\* parts.len() == 4 && every part parses to a u32 <= 255
is_valid_ip(value) ==
    LET parts == split(value, ".")
    IN  /\ Len(parts) = 4
        /\ \A k \in 1..Len(parts) :
              /\ is_some(parse_u32(parts[k]))
              /\ NumeralLeq(unwrap(parse_u32(parts[k])), "255")

\* extract_template without its third pass: numeric ids stay in the template
extract_template_without_ids(message) ==
    LET start == [template |-> message, variables |-> <<>>]
        uuids == captures_iter(VAR_UUID, message)
        afterUuid == TemplatePass(start, uuids, "{UUID}", "Uuid")
        ips == SelectSeq(captures_iter(VAR_IP, message), is_valid_ip)
    IN  TemplatePass(afterUuid, ips, "{IP}", "IpAddress")

extract_template(message) ==
    LET start == [template |-> message, variables |-> <<>>]
        uuids == captures_iter(VAR_UUID, message)
        afterUuid == TemplatePass(start, uuids, "{UUID}", "Uuid")
        ips == SelectSeq(captures_iter(VAR_IP, message), is_valid_ip)
        afterIp == TemplatePass(afterUuid, ips, "{IP}", "IpAddress")
        ids == captures_iter(VAR_NUMERIC_ID, message)
    IN  TemplatePass(afterIp, ids, "{ID}", "NumericId")

determine_error_type(line) ==
    IF is_match(LOG_LEVEL_ERROR, line) THEN "Error"
    ELSE IF is_match(LOG_LEVEL_WARN, line) THEN "Warning"
    ELSE IF is_match(LOG_LEVEL_INFO, line) THEN "Info"
    ELSE IF \/ is_match(NODE_ERROR, line)
            \/ is_match(PYTHON_ERROR, line)
            \/ is_match(JAVA_ERROR, line) THEN "Error"
    ELSE IF is_match(GENERIC_ERROR, line) THEN "Error"
    ELSE IF is_match(GENERIC_WARN, line) THEN "Warning"
    ELSE IF is_match(GENERIC_INFO, line) THEN "Info"
    ELSE "Info"

determine_severity(error_type, message) ==
    LET m == to_lowercase(message)
    IN  IF error_type = "Error"
        THEN IF \/ contains(m, "fatal") \/ contains(m, "critical")
                \/ contains(m, "segfault") \/ contains(m, "panic") THEN "Critical"
             ELSE IF \/ contains(m, "null") \/ contains(m, "undefined")
                     \/ contains(m, "reference") THEN "High"
             ELSE "Medium"
        ELSE "Low"

\* a location is <<file, line, column>>, each an Option
NoLocation == <<None, None, None>>

extract_node_location(stack_line) ==
    LET map(caps) ==
        IF caps # <<>>
        THEN <<cap_get(caps[1], stack_line, 2),
               and_then_parse(cap_get(caps[1], stack_line, 3)),
               and_then_parse(cap_get(caps[1], stack_line, 4))>>
        ELSE NoLocation
    IN  map(captures(NODE_STACK, stack_line))

extract_python_location(stack_line) ==
    LET map(caps) ==
        IF caps # <<>>
        THEN <<cap_get(caps[1], stack_line, 1),
               and_then_parse(cap_get(caps[1], stack_line, 2)),
               None>>
        ELSE NoLocation
    IN  map(captures(PYTHON_STACK, stack_line))

extract_java_location(stack_line) ==
    LET map(caps) ==
        IF caps # <<>>
        THEN <<cap_get(caps[1], stack_line, 2),
               and_then_parse(cap_get(caps[1], stack_line, 3)),
               None>>
        ELSE NoLocation
    IN  map(captures(JAVA_STACK, stack_line))

extract_go_location(stack_line) ==
    LET map(caps) ==
        IF caps # <<>> /\ is_some(cap_get(caps[1], stack_line, 3))
        THEN <<cap_get(caps[1], stack_line, 3),
               and_then_parse(cap_get(caps[1], stack_line, 4)),
               None>>
        ELSE NoLocation
    IN  map(captures(GO_STACK, stack_line))

extract_rust_location(stack_line) ==
    LET map(caps) ==
        IF caps # <<>>
        THEN <<cap_get(caps[1], stack_line, 2),
               and_then_parse(cap_get(caps[1], stack_line, 3)),
               and_then_parse(cap_get(caps[1], stack_line, 4))>>
        ELSE NoLocation
    IN  map(captures(RUST_PANIC, stack_line))

is_stack_trace_line(line) ==
    LET trimmed == trim(line)
    IN  \/ starts_with(trimmed, "at ") \/ contains(line, "    at ")
        \/ starts_with(trimmed, "File \"") \/ starts_with(trimmed, "File '")
        \/ is_match(JAVA_STACK, line)
        \/ is_match(GO_STACK, line)
        \/ is_match(RUST_PANIC, line)
        \/ is_match(CAUSED_BY, line)
        \/ is_match(CODE_CONTEXT, line)
        \/ (Len(trimmed) > 0 /\ starts_with(line, "    ") /\ ~starts_with(trimmed, "//"))

extract_location_any_format(line) ==
    LET first(node, python, java, go, rust) ==
            IF is_some(node[1]) THEN node
            ELSE IF is_some(python[1]) THEN python
            ELSE IF is_some(java[1]) THEN java
            ELSE IF is_some(go[1]) THEN go
            ELSE IF is_some(rust[1]) THEN rust
            ELSE NoLocation
    IN  first(extract_node_location(line), extract_python_location(line),
              extract_java_location(line), extract_go_location(line),
              extract_rust_location(line))

extract_error_message(line) ==
    LET first(node, python, java, caused) ==
            IF node # <<>> /\ is_some(cap_get(node[1], line, 2))
            THEN unwrap(cap_get(node[1], line, 2))
            ELSE IF python # <<>> /\ is_some(cap_get(python[1], line, 3))
            THEN unwrap(cap_get(python[1], line, 3))
            ELSE IF java # <<>> /\ is_some(cap_get(java[1], line, 2))
            THEN unwrap(cap_get(java[1], line, 2))
            ELSE IF caused # <<>> /\ is_some(cap_get(caused[1], line, 1))
            THEN unwrap(cap_get(caused[1], line, 1))
            ELSE trim(line)
    IN  first(captures(NODE_ERROR, line), captures(PYTHON_ERROR, line),
              captures(JAVA_ERROR, line), captures(CAUSED_BY, line))

\* NODE_ERROR || PYTHON_ERROR || JAVA_ERROR || GENERIC_ERROR (the is_error_line
\* local of process_line and of parse_log_content)
is_error_line(line) ==
    \/ is_match(NODE_ERROR, line)
    \/ is_match(PYTHON_ERROR, line)
    \/ is_match(JAVA_ERROR, line)
    \/ is_match(GENERIC_ERROR, line)

-----------------------------------------------------------------------------
(***************************************************************************)
(* Bounds of the model and the lines the callers feed.                     *)
(***************************************************************************)

MaxLines == 3          \* process_line calls of a session under Spec
MaxTraceLines == 4     \* ... under SpecTrace
MaxDedupLines == 3     \* ... under SpecDedup
MaxDistinct == 22      \* distinct error lines fed under SpecTopN
MaxRepeats == 1        \* repeated error lines fed under SpecTopN
NumSeeds == 2          \* hasher seeds a HashMap may be created with
MaxPairLines == 2      \* process_line calls of each of two sessions under SpecPair
MaxLocationLines == 3  \* process_line calls of a session under SpecLocation
MaxTallyLines == 3     \* process_line calls of a session under SpecTally
MaxExamples == 3       \* examples passed to detect_pattern_lcs under SpecDetect
MaxErrors == 3         \* errors passed to cluster_by_similarity under SpecCluster

Vocabulary ==
    {"", "     ",
     "Error: User 12345 not found",
     "Error: User 67890 not found",
     "User 12345 not found",
     "    at foo (file.js:10:5)",
     "Caused by: IOException: disk",
     "WARN low disk"}

TraceVocabulary ==
    {"2025-01-01T00:00:00Z ERROR boom",
     "    at foo (file.js:10:5)",
     "    at bar (b.js:2:2)",
     "    at Logger.error (logger.js:12:5)",
     "done"}

DedupVocabulary ==
    {"User 12345 not found",
     "User 67890 not found",
     "Error: User 12345 not found",
     "Error: User 67890 not found"}

PairVocabulary ==
    {"Error: User 12345 not found",
     "ERROR code 1",
     "    at foo (file.js:10:5)"}

\* frames whose line or column number is above u32::MAX, one whose line
\* number is u32::MAX, and error lines with and without such a location
LocationVocabulary ==
    {"Error: boom",
     "TypeError: x is null at foo (a.js:4294967296:7)",
     "    at foo (file.js:4294967296:5)",
     "    at bar (b.js:7:99999999999)",
     "    at com.Foo.run(Foo.java:4294967296)",
     "    at ok (c.js:4294967295:1)"}

\* lines that are tallied only (warning and info keywords, neither), an error
\* with a frame, and an error signature under an explicit INFO level
TallyVocabulary ==
    {"Error: boom",
     "    at foo (file.js:10:5)",
     "WARN retry INFO",
     "INFO started",
     "done",
     "Error: handled",
     "2025-05-27 00:40:12 INFO [main] Error: handled"}

\* the k-th of a family of error lines with pairwise different templates
ErrLine(k) == "ERROR code " \o usize_to_string(k)

TopNLines == {ErrLine(k) : k \in 1..MaxDistinct}

AllLines ==
    Vocabulary \cup TraceVocabulary \cup DedupVocabulary \cup TopNLines
        \cup PairVocabulary \cup LocationVocabulary \cup TallyVocabulary

Seeds == 0..(NumSeeds - 1)

-----------------------------------------------------------------------------
(***************************************************************************)
(* What process_line and parse_log_content compute from the line alone,    *)
(* under the names of their locals.  Memo holds it for the lines fed, so   *)
(* that a step does not match the line again.                              *)
(***************************************************************************)

LineLocals(line) ==
    LET templated(message, loc, error_type, tv) ==
            [error_type |-> error_type,
             is_error_line |-> is_error_line(line),
             message |-> message,
             timestamp |-> extract_timestamp(line),
             file |-> loc[1], line_num |-> loc[2], column |-> loc[3],
             template |-> tv.template,
             variables |-> tv.variables,
             severity |-> determine_severity(error_type, message),
             fingerprint |-> generate_fingerprint(tv.template, loc[1], loc[2]),
             is_stack_trace_line |-> is_stack_trace_line(line),
             caused_by |-> is_match(CAUSED_BY, line),
             generic_warn |-> is_match(GENERIC_WARN, line),
             generic_info |-> is_match(GENERIC_INFO, line),
             is_blank |-> trim(line) = ""]
        located(message, loc, error_type) ==
            templated(message, loc, error_type, extract_template(message))
    IN  located(extract_error_message(line), extract_location_any_format(line),
                determine_error_type(line))

Memo == [line \in AllLines |-> LineLocals(line)]

Locals(line) == Memo[line]

-----------------------------------------------------------------------------
(***************************************************************************)
(* HashMap<String, ParsedError>.  The map is the function error_map; the   *)
(* order in which values() / into_values() yields it is fixed by the       *)
(* hasher seed drawn when the map is created and by the keys it holds:     *)
(* map_keys lists the keys as inserted and the seed permutes that list.    *)
(***************************************************************************)

RECURSIVE Reverse(_)
Reverse(seq) == IF seq = <<>> THEN <<>> ELSE Append(Reverse(Tail(seq)), Head(seq))

Rotate(seq, k) ==
    IF seq = <<>> THEN seq
    ELSE LET r == k % Len(seq)
         IN  SubSeq(seq, r + 1, Len(seq)) \o SubSeq(seq, 1, r)

\* the keys in the order the map with this seed iterates them
iteration_order(seed, keys) ==
    IF seed = 0 THEN keys
    ELSE IF seed = 1 THEN Reverse(keys)
    ELSE Rotate(keys, seed - 1)

\* HashMap::values().cloned().collect() / into_values().collect()
values(seed, keys, map) ==
    LET order == iteration_order(seed, keys)
    IN  [k \in 1..Len(order) |-> map[order[k]]]

\* uuid::Uuid::new_v4().to_string(): the k-th token drawn, each one new
uuid_new_v4(k) == "uuid-" \o usize_to_string(k)

TOP_N == 20

\* errors.sort_by(|a, b| b.occurrences.cmp(&a.occurrences)): a stable sort,
\* so e goes behind every element that does not have fewer occurrences
RECURSIVE InsertByOccurrences(_, _)
InsertByOccurrences(sorted, e) ==
    IF sorted = <<>> THEN <<e>>
    ELSE IF Head(sorted).occurrences >= e.occurrences
    THEN <<Head(sorted)>> \o InsertByOccurrences(Tail(sorted), e)
    ELSE <<e>> \o sorted

RECURSIVE sort_by_occurrences(_)
sort_by_occurrences(errors) ==
    IF errors = <<>> THEN <<>>
    ELSE InsertByOccurrences(sort_by_occurrences(SubSeq(errors, 1, Len(errors) - 1)),
                             errors[Len(errors)])

\* Vec::truncate
truncate(v, len) == IF Len(v) > len THEN SubSeq(v, 1, len) ELSE v

-----------------------------------------------------------------------------
(***************************************************************************)
(* struct LogParser and its methods.                                       *)
(***************************************************************************)

\* LogParser::new(); seed is the RandomState of its HashMap::new()
LogParser_new(seed) ==
    [error_map |-> <<>>,
     map_keys |-> <<>>,
     hash_seed |-> seed,
     total_lines |-> 0,
     total_errors |-> 0,
     total_warnings |-> 0,
     total_info |-> 0,
     in_stack_trace |-> FALSE,
     last_error_fingerprint |-> None,
     current_stack_trace |-> ""]

\* NewParsedError that takes every record for an Error
NewParsedError_typed_error(L, line, id) ==
    [id |-> id,
     error_type |-> "Error",
     severity |-> L.severity,
     message |-> L.message,
     template |-> L.template,
     variables |-> L.variables,
     full_trace |-> line,
     file |-> L.file,
     line |-> L.line_num,
     column |-> L.column,
     occurrences |-> 1,
     timestamp |-> L.timestamp,
     fingerprint |-> L.fingerprint]

\* the ParsedError built for a fingerprint seen for the first time
NewParsedError(L, line, id) ==
    [id |-> id,
     error_type |-> L.error_type,
     severity |-> L.severity,
     message |-> L.message,
     template |-> L.template,
     variables |-> L.variables,
     full_trace |-> line,
     file |-> L.file,
     line |-> L.line_num,
     column |-> L.column,
     occurrences |-> 1,
     timestamp |-> L.timestamp,
     fingerprint |-> L.fingerprint]

\* MergeOccurrence without existing.occurrences += 1
MergeOccurrence_uncounted(existing, L, line) ==
    [existing EXCEPT !.variables = @ \o L.variables,
                     !.full_trace = @ \o "\n\n---\n\n" \o line]

\* MergeOccurrence with existing.occurrences -= 1
MergeOccurrence_decrementing(existing, L, line) ==
    [existing EXCEPT !.occurrences = @ - 1,
                     !.variables = @ \o L.variables,
                     !.full_trace = @ \o "\n\n---\n\n" \o line]

\* MergeOccurrence that also takes the message of the repeat
MergeOccurrence_last_message(existing, L, line) ==
    [existing EXCEPT !.occurrences = @ + 1,
                     !.message = L.message,
                     !.variables = @ \o L.variables,
                     !.full_trace = @ \o "\n\n---\n\n" \o line]

\* the update of a record whose fingerprint is seen again
MergeOccurrence(existing, L, line) ==
    [existing EXCEPT !.occurrences = @ + 1,
                     !.variables = @ \o L.variables,
                     !.full_trace = @ \o "\n\n---\n\n" \o line]

\* AppendTraceLine that takes the column of every located frame
AppendTraceLine_column_refreshed(error, L, line) ==
    LET traced == [error EXCEPT !.full_trace = @ \o "\n" \o line]
    IN  IF is_none(error.file) /\ is_some(L.file)
        THEN [traced EXCEPT !.file = L.file, !.line = L.line_num, !.column = L.column]
        ELSE IF is_some(L.file) THEN [traced EXCEPT !.column = L.column]
        ELSE traced

\* AppendTraceLine that recomputes the fingerprint field when it backfills
AppendTraceLine_refingerprinted(error, L, line) ==
    LET traced == [error EXCEPT !.full_trace = @ \o "\n" \o line]
    IN  IF is_none(error.file) /\ is_some(L.file)
        THEN [traced EXCEPT !.file = L.file, !.line = L.line_num, !.column = L.column,
                            !.fingerprint = generate_fingerprint(error.template, L.file, L.line_num)]
        ELSE traced

\* CountOtherLine that asks GENERIC_INFO before GENERIC_WARN
CountOtherLine_info_first(c, L) ==
    IF L.generic_info THEN [c EXCEPT !.total_info = @ + 1]
    ELSE IF L.generic_warn THEN [c EXCEPT !.total_warnings = @ + 1]
    ELSE c

\* AppendTraceLine without the error.file.is_none() test
AppendTraceLine_overwriting(error, L, line) ==
    LET traced == [error EXCEPT !.full_trace = @ \o "\n" \o line]
    IN  IF is_some(L.file)
        THEN [traced EXCEPT !.file = L.file, !.line = L.line_num, !.column = L.column]
        ELSE traced

\* a continuation line appended to the record of the last error
AppendTraceLine(error, L, line) ==
    LET traced == [error EXCEPT !.full_trace = @ \o "\n" \o line]
    IN  IF is_none(error.file) /\ is_some(L.file)
        THEN [traced EXCEPT !.file = L.file, !.line = L.line_num, !.column = L.column]
        ELSE traced

\* a "Caused by:" / "Suppressed:" line appended to the record of the last error
AppendCausedBy(error, line) == [error EXCEPT !.full_trace = @ \o "\n" \o line]

\* CountErrorType whose Error arm falls through to the Info arm
CountErrorType_falling_through(c, error_type) ==
    IF error_type = "Error"
    THEN [c EXCEPT !.total_errors = @ + 1, !.total_info = @ + 1]
    ELSE IF error_type = "Warning" THEN [c EXCEPT !.total_warnings = @ + 1]
    ELSE [c EXCEPT !.total_info = @ + 1]

\* the three counters after an error line of this type
CountErrorType(c, error_type) ==
    IF error_type = "Error" THEN [c EXCEPT !.total_errors = @ + 1]
    ELSE IF error_type = "Warning" THEN [c EXCEPT !.total_warnings = @ + 1]
    ELSE [c EXCEPT !.total_info = @ + 1]

\* the counters after a non-empty line that is neither error nor trace
CountOtherLine(c, L) ==
    IF L.generic_warn THEN [c EXCEPT !.total_warnings = @ + 1]
    ELSE IF L.generic_info THEN [c EXCEPT !.total_info = @ + 1]
    ELSE c

\* LogParser::process_line(&mut self, line); id is the uuid drawn should the
\* line start a new record
process_line(self, line, id) ==
    LET step(L, s1) ==
        IF L.is_error_line
        THEN LET s2 == CountErrorType(s1, L.error_type)
                 fp == L.fingerprint
             IN  IF fp \in DOMAIN self.error_map
                 THEN [s2 EXCEPT
                         !.error_map[fp] = MergeOccurrence(@, L, line),
                         !.last_error_fingerprint = Some(fp),
                         !.current_stack_trace = "",
                         !.in_stack_trace = TRUE]
                 ELSE [s2 EXCEPT
                         !.error_map = (fp :> NewParsedError(L, line, id)) @@ @,
                         !.map_keys = Append(@, fp),
                         !.last_error_fingerprint = Some(fp),
                         !.current_stack_trace = "",
                         !.in_stack_trace = TRUE]
        ELSE IF self.in_stack_trace /\ L.is_stack_trace_line
        THEN LET s2 == [s1 EXCEPT !.current_stack_trace = @ \o "\n" \o line]
                 fp == self.last_error_fingerprint
             IN  IF is_some(fp) /\ unwrap(fp) \in DOMAIN self.error_map
                 THEN [s2 EXCEPT !.error_map[unwrap(fp)] = AppendTraceLine(@, L, line)]
                 ELSE s2
        ELSE IF self.in_stack_trace /\ L.caused_by
        THEN LET fp == self.last_error_fingerprint
             IN  IF is_some(fp) /\ unwrap(fp) \in DOMAIN self.error_map
                 THEN [s1 EXCEPT !.error_map[unwrap(fp)] = AppendCausedBy(@, line)]
                 ELSE s1
        ELSE IF ~L.is_blank
        THEN [CountOtherLine(s1, L) EXCEPT !.in_stack_trace = FALSE]
        ELSE s1
    IN  step(Locals(line), [self EXCEPT !.total_lines = @ + 1])

\* ParseResult that truncates before it sorts
ParseResult_truncated_first(seed, keys, map, total_lines, total_errors, total_warnings, total_info) ==
    LET errors == values(seed, keys, map)
    IN  [summary |-> [total_lines |-> total_lines,
                      total_errors |-> total_errors,
                      total_warnings |-> total_warnings,
                      total_info |-> total_info,
                      unique_errors |-> Len(errors)],
         errors |-> sort_by_occurrences(truncate(errors, TOP_N))]

\* ParseResult with errors.len() read after errors.truncate(20)
ParseResult_counted_late(seed, keys, map, total_lines, total_errors, total_warnings, total_info) ==
    LET errors == truncate(sort_by_occurrences(values(seed, keys, map)), TOP_N)
    IN  [summary |-> [total_lines |-> total_lines,
                      total_errors |-> total_errors,
                      total_warnings |-> total_warnings,
                      total_info |-> total_info,
                      unique_errors |-> Len(errors)],
         errors |-> errors]

\* the ParseResult built from the map and the counters
ParseResult(seed, keys, map, total_lines, total_errors, total_warnings, total_info) ==
    LET errors == sort_by_occurrences(values(seed, keys, map))
        unique_errors == Len(errors)
    IN  [summary |-> [total_lines |-> total_lines,
                      total_errors |-> total_errors,
                      total_warnings |-> total_warnings,
                      total_info |-> total_info,
                      unique_errors |-> unique_errors],
         errors |-> truncate(errors, TOP_N)]

\* LogParser::get_result(&self)
get_result(self) ==
    ParseResult(self.hash_seed, self.map_keys, self.error_map, self.total_lines,
                self.total_errors, self.total_warnings, self.total_info)

-----------------------------------------------------------------------------
(***************************************************************************)
(* parse_log_content: the whole-document loop.                             *)
(***************************************************************************)

\* lines() that splits at line feeds and keeps what follows the last one, as
\* split('\n') does: the empty text has one empty line
lines_split(content) == split(content, "\n")

\* str::lines(): split at line feeds, a carriage return before one dropped,
\* no empty last line for a text that ends in a line feed
RECURSIVE lines(_)
lines(content) ==
    IF content = "" THEN <<>>
    ELSE IF \A i \in 1..Len(content) : CharAt(content, i) # "\n" THEN <<content>>
    ELSE LET k == SetMin({i \in 1..Len(content) : CharAt(content, i) = "\n"})
             raw == SubSeq(content, 1, k - 1)
             line == IF raw # "" /\ CharAt(raw, Len(raw)) = "\r"
                     THEN SubSeq(raw, 1, Len(raw) - 1) ELSE raw
         IN  <<line>> \o lines(SubSeq(content, k + 1, Len(content)))

\* the locals of parse_log_content before its loop
ParseLocals(seed) ==
    [error_map |-> <<>>,
     map_keys |-> <<>>,
     hash_seed |-> seed,
     current_stack_trace |-> "",
     in_stack_trace |-> FALSE,
     last_error_fingerprint |-> None,
     total_errors |-> 0,
     total_warnings |-> 0,
     total_info |-> 0]

\* one iteration of the loop of parse_log_content; id is the uuid drawn should
\* the line start a new record
ParseLoopBody(st, line, id) ==
    LET step(L) ==
        IF L.is_error_line
        THEN LET fingerprint == L.fingerprint
                 counted ==
                    IF L.error_type = "Error" THEN [st EXCEPT !.total_errors = @ + 1]
                    ELSE IF L.error_type = "Warning"
                    THEN [st EXCEPT !.total_warnings = @ + 1]
                    ELSE [st EXCEPT !.total_info = @ + 1]
                 merged ==
                    IF fingerprint \in DOMAIN st.error_map
                    THEN [counted EXCEPT
                            !.error_map[fingerprint] =
                                [@ EXCEPT !.occurrences = @ + 1,
                                          !.variables = @ \o L.variables,
                                          !.full_trace = @ \o "\n\n---\n\n" \o line]]
                    ELSE [counted EXCEPT
                            !.error_map =
                                (fingerprint :>
                                    [id |-> id,
                                     error_type |-> L.error_type,
                                     severity |-> L.severity,
                                     message |-> L.message,
                                     template |-> L.template,
                                     variables |-> L.variables,
                                     full_trace |-> line,
                                     file |-> L.file,
                                     line |-> L.line_num,
                                     column |-> L.column,
                                     occurrences |-> 1,
                                     timestamp |-> L.timestamp,
                                     fingerprint |-> fingerprint]) @@ @,
                            !.map_keys = Append(@, fingerprint)]
             IN  [merged EXCEPT !.last_error_fingerprint = Some(fingerprint),
                                !.current_stack_trace = "",
                                !.in_stack_trace = TRUE]
        ELSE IF st.in_stack_trace /\ L.is_stack_trace_line
        THEN LET st2 == [st EXCEPT !.current_stack_trace = @ \o "\n" \o line]
                 fp == st.last_error_fingerprint
             IN  IF is_some(fp) /\ unwrap(fp) \in DOMAIN st.error_map
                 THEN LET error == st.error_map[unwrap(fp)]
                          traced == [error EXCEPT !.full_trace = @ \o "\n" \o line]
                          located ==
                            IF is_none(error.file) /\ is_some(L.file)
                            THEN [traced EXCEPT !.file = L.file,
                                                !.line = L.line_num,
                                                !.column = L.column]
                            ELSE traced
                      IN  [st2 EXCEPT !.error_map[unwrap(fp)] = located]
                 ELSE st2
        ELSE IF st.in_stack_trace /\ L.caused_by
        THEN LET fp == st.last_error_fingerprint
             IN  IF is_some(fp) /\ unwrap(fp) \in DOMAIN st.error_map
                 THEN [st EXCEPT !.error_map[unwrap(fp)].full_trace = @ \o "\n" \o line]
                 ELSE st
        ELSE IF ~L.is_blank
        THEN LET counted ==
                    IF L.generic_warn THEN [st EXCEPT !.total_warnings = @ + 1]
                    ELSE IF L.generic_info THEN [st EXCEPT !.total_info = @ + 1]
                    ELSE st
             IN  [counted EXCEPT !.in_stack_trace = FALSE]
        ELSE st
    IN  step(Locals(line))

\* the loop over the lines; first_id numbers the uuids it draws
RECURSIVE ParseLoop(_, _, _)
ParseLoop(st, ls, first_id) ==
    IF ls = <<>> THEN st
    ELSE ParseLoop(ParseLoopBody(st, Head(ls), uuid_new_v4(first_id + Len(st.map_keys))),
                   Tail(ls), first_id)

\* parse_log_content(content); seed is the RandomState of its HashMap::new()
parse_log_content(content, seed, first_id) ==
    LET ls == lines(content)
        total_lines == Len(ls)
        st == ParseLoop(ParseLocals(seed), ls, first_id)
    IN  ParseResult(st.hash_seed, st.map_keys, st.error_map, total_lines,
                    st.total_errors, st.total_warnings, st.total_info)

-----------------------------------------------------------------------------
(***************************************************************************)
(* The callers: one session fed line by line, its result read at any       *)
(* time, and the whole-document parse of the text fed so far.              *)
(***************************************************************************)

Unit == <<>>

Returned(op, value) == [op |-> op, value |-> value]

Init ==
    /\ \E seed \in Seeds : sess = LogParser_new(seed)
    /\ history = <<>>
    /\ ret = Returned("new", Unit)
    /\ peer = Unit
    /\ args = Unit

\* session.process_line(line)
Feed(line) ==
    /\ sess' = process_line(sess, line, uuid_new_v4(Len(sess.map_keys) + 1))
    /\ history' = Append(history, line)
    /\ ret' = Returned("process_line", Unit)
    /\ UNCHANGED <<peer, args>>

ProcessLine ==
    \E line \in Vocabulary : sess.total_lines < MaxLines /\ Feed(line)

ProcessTraceLine ==
    \E line \in TraceVocabulary : sess.total_lines < MaxTraceLines /\ Feed(line)

ProcessDedupLine ==
    \E line \in DedupVocabulary : sess.total_lines < MaxDedupLines /\ Feed(line)

\* a log of distinct errors: each line is the next new error or, once there
\* are more errors than get_result returns, a few times the latest one again
ProcessTopNLine ==
    LET n == Len(sess.map_keys)
    IN  \/ n < MaxDistinct /\ Feed(ErrLine(n + 1))
        \/ n > TOP_N /\ sess.total_lines - n < MaxRepeats /\ Feed(ErrLine(n))

\* get_result written with into_values(): the map is moved out of the session
GetResult_taking ==
    /\ ret' = Returned("get_result", get_result(sess))
    /\ sess' = [sess EXCEPT !.error_map = <<>>, !.map_keys = <<>>]
    /\ UNCHANGED <<history, peer, args>>

\* session.get_result()
GetResult ==
    /\ ret' = Returned("get_result", get_result(sess))
    /\ UNCHANGED <<sess, history, peer, args>>

\* the text whose lines are ls, each ended by a line feed
RECURSIVE TextOf(_)
TextOf(ls) == IF ls = <<>> THEN "" ELSE Head(ls) \o "\n" \o TextOf(Tail(ls))

\* the texts whose lines are ls: every line ended or, when the last line is
\* not empty, the last one left open
Texts(ls) ==
    {TextOf(ls)} \cup
    (IF ls = <<>> \/ ls[Len(ls)] = "" THEN {}
     ELSE {TextOf(SubSeq(ls, 1, Len(ls) - 1)) \o ls[Len(ls)]})

\* parse_log(content)
ParseLog ==
    /\ \E content \in Texts(history), seed \in Seeds :
          ret' = Returned("parse_log",
                          parse_log_content(content, seed, Len(sess.map_keys) + 1))
    /\ UNCHANGED <<sess, history, peer, args>>

Next == ProcessLine \/ GetResult \/ ParseLog
Spec == Init /\ [][Next]_vars

NextTrace == ProcessTraceLine \/ GetResult \/ ParseLog
SpecTrace == Init /\ [][NextTrace]_vars

NextDedup == ProcessDedupLine \/ GetResult \/ ParseLog
SpecDedup == Init /\ [][NextDedup]_vars

NextTopN == ProcessTopNLine \/ GetResult \/ ParseLog
SpecTopN == Init /\ [][NextTopN]_vars

ProcessLocationLine ==
    \E line \in LocationVocabulary : sess.total_lines < MaxLocationLines /\ Feed(line)

NextLocation == ProcessLocationLine \/ GetResult \/ ParseLog
SpecLocation == Init /\ [][NextLocation]_vars

ProcessTallyLine ==
    \E line \in TallyVocabulary : sess.total_lines < MaxTallyLines /\ Feed(line)

NextTally == ProcessTallyLine \/ GetResult \/ ParseLog
SpecTally == Init /\ [][NextTally]_vars

\* two LogParser instances, each with the RandomState of its own HashMap
InitPair ==
    /\ \E seed \in Seeds, peer_seed \in Seeds :
          /\ sess = LogParser_new(seed)
          /\ peer = [sess |-> LogParser_new(peer_seed), history |-> <<>>]
    /\ history = <<>>
    /\ ret = Returned("new", Unit)
    /\ args = Unit

ProcessPairLine ==
    \E line \in PairVocabulary : sess.total_lines < MaxPairLines /\ Feed(line)

\* process_line of the second instance, that of the first using its static
\* trace flag: in_stack_trace kept in one place for all sessions
PeerProcessLine_shared_flag ==
    \E line \in PairVocabulary :
        /\ peer.sess.total_lines < MaxPairLines
        /\ peer' = [sess |-> process_line(
                                [peer.sess EXCEPT !.in_stack_trace = sess.in_stack_trace],
                                line,
                                uuid_new_v4(MaxPairLines + Len(peer.sess.map_keys) + 1)),
                    history |-> Append(peer.history, line)]
        /\ ret' = Returned("process_line", Unit)
        /\ UNCHANGED <<sess, history, args>>

\* peer.process_line(line)
PeerProcessLine ==
    \E line \in PairVocabulary :
        /\ peer.sess.total_lines < MaxPairLines
        /\ peer' = [sess |-> process_line(
                                peer.sess, line,
                                uuid_new_v4(MaxPairLines + Len(peer.sess.map_keys) + 1)),
                    history |-> Append(peer.history, line)]
        /\ ret' = Returned("process_line", Unit)
        /\ UNCHANGED <<sess, history, args>>

\* peer.get_result()
PeerGetResult ==
    /\ ret' = Returned("peer_get_result", get_result(peer.sess))
    /\ UNCHANGED <<sess, history, peer, args>>

NextPair == ProcessPairLine \/ PeerProcessLine \/ GetResult \/ PeerGetResult
SpecPair == InitPair /\ [][NextPair]_vars

-----------------------------------------------------------------------------
(***************************************************************************)
(* The helper functions called on their own: the arguments are drawn when  *)
(* the call is set up, the step is the call.                               *)
(***************************************************************************)

\* lines of a structured log: timestamp, level keyword, free text
ClassifyTimestamps ==
    {"2025-05-27 00:40:12", "2025-05-27T00:40:12Z", "2025-05-27 00:40:12,694"}

ClassifyLevels ==
    {"INFO", "DEBUG", "TRACE", "WARN", "WARNING", "ERROR", "FATAL", "CRITICAL"}

ClassifyTexts ==
    {"", " started", " connection error", " fatal: bad state",
     " [main] critical failure", " disk warning"}

ClassifyLines ==
    {ts \o " " \o level \o text :
        ts \in ClassifyTimestamps, level \in ClassifyLevels, text \in ClassifyTexts}

\* no session: a helper is about to be called with args
InitCall(arguments) ==
    /\ args \in arguments
    /\ sess = Unit
    /\ history = <<>>
    /\ peer = Unit
    /\ ret = Returned("new", Unit)

\* determine_error_type(line)
DetermineErrorType ==
    /\ ret.op = "new"
    /\ ret' = Returned("determine_error_type", determine_error_type(args.line))
    /\ UNCHANGED <<sess, history, peer, args>>

SpecClassify ==
    InitCall({[line |-> line] : line \in ClassifyLines}) /\ [][DetermineErrorType]_vars

\* arguments of generate_fingerprint: templates that differ in case, in outer
\* and in inner white space, with and without a file and a line
FingerprintTemplates ==
    {"User {ID} not found", "user {id} not found", "  User {ID} not found  ",
     "USER {ID} NOT FOUND\t", "User {ID} not  found", "User {IP} not found",
     "", "   "}

FingerprintArgs ==
    {[template |-> template, file |-> file, line |-> line] :
        template \in FingerprintTemplates,
        file \in {None, Some(""), Some("file.js"), Some("File.js")},
        line \in {None, Some("0"), Some("10")}}

\* generate_fingerprint(template, &file, &line)
GenerateFingerprint ==
    /\ ret.op = "new"
    /\ ret' = Returned("generate_fingerprint",
                       generate_fingerprint(args.template, args.file, args.line))
    /\ UNCHANGED <<sess, history, peer, args>>

SpecFingerprint == InitCall(FingerprintArgs) /\ [][GenerateFingerprint]_vars

\* messages for extract_template: two tokens in a sentence, the tokens being
\* short and long digit runs, valid and invalid addresses, uuids
TemplateTokens ==
    {"7", "123", "1234", "98765", "x1234",
     "10.0.0.1", "10.0.0.12", "999.1.1.1",
     "550e8400-e29b-41d4-a716-446655440000",
     "deadbeef-dead-beef-dead-beefdeadbeef"}

TemplateMessages ==
    {"user " \o first \o " from " \o second :
        first \in TemplateTokens, second \in TemplateTokens}

\* extract_template(message)
ExtractTemplate ==
    /\ ret.op = "new"
    /\ ret' = Returned("extract_template", extract_template(args.message))
    /\ UNCHANGED <<sess, history, peer, args>>

SpecTemplate ==
    InitCall({[message |-> message] : message \in TemplateMessages})
        /\ [][ExtractTemplate]_vars

-----------------------------------------------------------------------------
(***************************************************************************)
(* Properties of the parser.                                               *)
(***************************************************************************)

\* a step that is a process_line call, and the line it hands over
ProcessLineStep == history' # history
Fed == history'[Len(history')]

\* the ParsedErrors of a session in the order its map iterates them
Records(self) == values(self.hash_seed, self.map_keys, self.error_map)

\* the error-signature lines fed so far, their fingerprints, and how many of
\* them produced a given fingerprint
ErrorLineIndexes == {k \in 1..Len(history) : Locals(history[k]).is_error_line}
FingerprintsFed == {Locals(history[k]).fingerprint : k \in ErrorLineIndexes}
TimesFed(fp) ==
    Cardinality({k \in ErrorLineIndexes : Locals(history[k]).fingerprint = fp})

CountersWithinLines(c) ==
    c.total_errors + c.total_warnings + c.total_info <= c.total_lines

\* C1: the three counters never add up to more than total_lines, in the
\* session and in every result of get_result and parse_log; a process_line
\* call adds exactly 1 to total_lines and at most 1 to at most one of
\* total_errors, total_warnings and total_info.
C1_CountersWithinLines ==
    /\ [](/\ CountersWithinLines(sess)
          /\ ret.op \in {"get_result", "parse_log"}
                => CountersWithinLines(ret.value.summary))
    /\ [][ProcessLineStep =>
            LET errors == sess'.total_errors - sess.total_errors
                warnings == sess'.total_warnings - sess.total_warnings
                info == sess'.total_info - sess.total_info
            IN  /\ sess'.total_lines = sess.total_lines + 1
                /\ {errors, warnings, info} \subseteq {0, 1}
                /\ errors + warnings + info <= 1]_vars

C1_Witness ==
    /\ ret.op = "parse_log"
    /\ ret.value.summary = [total_lines |-> 3, total_errors |-> 1,
                            total_warnings |-> 1, total_info |-> 0,
                            unique_errors |-> 1]
    /\ sess.total_lines = 3 /\ sess.total_errors = 1 /\ sess.total_warnings = 1
    /\ \E k \in 1..Len(history) : Locals(history[k]).is_blank

\* C2: the map holds one record per fingerprint produced by the error
\* lines fed so far, no other record, and each record's occurrences is the
\* number of error lines fed that produced its fingerprint; the same holds
\* of the records parse_log returns for those lines.
C2_OneRecordPerFingerprint ==
    /\ DOMAIN sess.error_map = FingerprintsFed
    /\ \A fp \in DOMAIN sess.error_map :
          /\ sess.error_map[fp].fingerprint = fp
          /\ sess.error_map[fp].occurrences = TimesFed(fp)
    /\ ret.op = "parse_log" =>
          LET errors == ret.value.errors
          IN  /\ ret.value.summary.unique_errors = Cardinality(FingerprintsFed)
              /\ {errors[k].fingerprint : k \in 1..Len(errors)} = FingerprintsFed
              /\ Len(errors) = Cardinality(FingerprintsFed)
              /\ \A k \in 1..Len(errors) :
                    errors[k].occurrences = TimesFed(errors[k].fingerprint)

C2_Witness ==
    /\ Cardinality(DOMAIN sess.error_map) = 2
    /\ Cardinality(ErrorLineIndexes) = 3
    /\ \E fp \in DOMAIN sess.error_map : sess.error_map[fp].occurrences = 2

\* one record, of template "User {ID} not found", seen twice, with the two
\* numeric ids as its variables
DedupedUsers(records) ==
    /\ Len(records) = 1
    /\ records[1].template = "User {ID} not found"
    /\ records[1].occurrences = 2
    /\ Len(records[1].variables) = 2
    /\ \A k \in 1..2 : records[1].variables[k].var_type = "NumericId"
    /\ {records[1].variables[k].value : k \in 1..2} = {"12345", "67890"}

BareUserLines ==
    {<<"User 12345 not found", "User 67890 not found">>,
     <<"User 67890 not found", "User 12345 not found">>}

ErrorUserLines ==
    {<<"Error: User 12345 not found", "Error: User 67890 not found">>,
     <<"Error: User 67890 not found", "Error: User 12345 not found">>}

\* C3 as stated: the two lines "User 12345 not found" and
\* "User 67890 not found" give one record with template "User {ID} not found",
\* occurrences 2 and the NumericId variables 12345 and 67890.
C3_BareLinesDeduped ==
    history \in BareUserLines =>
        /\ DedupedUsers(Records(sess))
        /\ ret.op \in {"get_result", "parse_log"} => DedupedUsers(ret.value.errors)

\* C3, amended: the two lines "Error: User 12345 not found" and
\* "Error: User 67890 not found" give one record with template
\* "User {ID} not found", occurrences 2 and the NumericId variables 12345 and
\* 67890; the same two lines without the "Error:" signature give no record.
C3_ErrorLinesDeduped ==
    /\ history \in ErrorUserLines =>
          /\ DedupedUsers(Records(sess))
          /\ ret.op \in {"get_result", "parse_log"} => DedupedUsers(ret.value.errors)
    /\ history \in BareUserLines =>
          /\ Records(sess) = <<>>
          /\ ret.op \in {"get_result", "parse_log"} =>
                ret.value.errors = <<>> /\ ret.value.summary.unique_errors = 0

C3_Witness ==
    /\ history = <<"Error: User 12345 not found", "Error: User 67890 not found">>
    /\ ret.op = "parse_log"
    /\ ret.value.summary.unique_errors = 1
    /\ ret.value.errors[1].variables =
          <<Variable("{ID}", "12345", "NumericId"), Variable("{ID}", "67890", "NumericId")>>

\* C4: get_result and parse_log return at most 20 records, and the
\* unique_errors they report is the number of fingerprints in the map, also
\* when there are more than 20 of them.
C4_TopTwentyOfAll ==
    /\ Len(get_result(sess).errors) <= 20
    /\ get_result(sess).summary.unique_errors = Cardinality(DOMAIN sess.error_map)
    /\ ret.op = "get_result" =>
          /\ Len(ret.value.errors) <= 20
          /\ ret.value.summary.unique_errors = Cardinality(DOMAIN sess.error_map)
    /\ ret.op = "parse_log" =>
          /\ Len(ret.value.errors) <= 20
          /\ ret.value.summary.unique_errors = Cardinality(FingerprintsFed)

C4_Witness ==
    /\ ret.op = "get_result"
    /\ Cardinality(DOMAIN sess.error_map) = 22
    /\ ret.value.summary.unique_errors = 22
    /\ Len(ret.value.errors) = 20

\* the error line of the trace example and its two frames
Boom == "2025-01-01T00:00:00Z ERROR boom"
FrameFoo == "    at foo (file.js:10:5)"
FrameBar == "    at bar (b.js:2:2)"

\* s ends with the text p
ends_with(s, p) == Len(p) <= Len(s) /\ SubSeq(s, Len(s) - Len(p) + 1, Len(s)) = p

\* the step feeds a continuation line that carries a location, right after an
\* error line that carries none
TraceJoinStep ==
    /\ ProcessLineStep
    /\ history # <<>>
    /\ Locals(history[Len(history)]).is_error_line
    /\ is_none(Locals(history[Len(history)]).file)
    /\ ~Locals(Fed).is_error_line
    /\ Locals(Fed).is_stack_trace_line
    /\ is_some(Locals(Fed).file)

\* the example: one record, an Error at file.js:10:5, whose trace is both lines
TraceJoinExample ==
    history = <<Boom, FrameFoo>> =>
        /\ Len(Records(sess)) = 1
        /\ Records(sess)[1].error_type = "Error"
        /\ Records(sess)[1].file = Some("file.js")
        /\ Records(sess)[1].line = Some("10")
        /\ Records(sess)[1].column = Some("5")
        /\ Records(sess)[1].full_trace = Boom \o "\n" \o FrameFoo

\* C5 as stated: after an error line without location and a continuation line
\* with one, the record of the pair has both lines in its full_trace, in
\* order, and the file, line and column of the continuation line.
C5_LocationOfContinuation ==
    /\ []TraceJoinExample
    /\ [][TraceJoinStep =>
            LET fp == Locals(history[Len(history)]).fingerprint
                L == Locals(Fed)
            IN  /\ DOMAIN sess'.error_map = DOMAIN sess.error_map
                /\ ends_with(sess'.error_map[fp].full_trace,
                             history[Len(history)] \o "\n" \o Fed)
                /\ sess'.error_map[fp].file = L.file
                /\ sess'.error_map[fp].line = L.line_num
                /\ sess'.error_map[fp].column = L.column]_vars

\* C5, amended: the record of the pair has both lines in its full_trace, in
\* order; it takes the file, line and column of the continuation line when
\* it had no file before that line, and keeps its own when it had one (the
\* error line merged into a record that an earlier trace had located).
C5_LocationBackfilledOnce ==
    /\ []TraceJoinExample
    /\ [][TraceJoinStep =>
            LET fp == Locals(history[Len(history)]).fingerprint
                L == Locals(Fed)
                old == sess.error_map[fp]
                new == sess'.error_map[fp]
            IN  /\ DOMAIN sess'.error_map = DOMAIN sess.error_map
                /\ new.full_trace = old.full_trace \o "\n" \o Fed
                /\ ends_with(new.full_trace, history[Len(history)] \o "\n" \o Fed)
                /\ IF is_none(old.file)
                   THEN <<new.file, new.line, new.column>> = <<L.file, L.line_num, L.column>>
                   ELSE <<new.file, new.line, new.column>> = <<old.file, old.line, old.column>>]_vars

C5_Witness ==
    /\ history = <<Boom, FrameFoo, Boom, FrameBar>>
    /\ Len(Records(sess)) = 1
    /\ Records(sess)[1].file = Some("file.js")
    /\ Records(sess)[1].occurrences = 2
    /\ ends_with(Records(sess)[1].full_trace, Boom \o "\n" \o FrameBar)

\* the record the session is attached to while in a trace
ActiveRecord(self) == self.error_map[unwrap(self.last_error_fingerprint)]

\* every record but the one of fingerprint fp is left as it was
OthersUnchanged(fp) ==
    \A other \in DOMAIN sess.error_map \ {fp} :
        other \in DOMAIN sess'.error_map /\ sess'.error_map[other] = sess.error_map[other]

\* C6 as stated: while in a trace, a "Caused by:" or "Suppressed:" line is
\* appended to the full_trace of the active record; it creates no record,
\* changes no other record, and leaves the session in the trace of the same
\* record.
C6_ChainedErrorStaysAttached ==
    [][(ProcessLineStep /\ sess.in_stack_trace /\ Locals(Fed).caused_by) =>
            /\ DOMAIN sess'.error_map = DOMAIN sess.error_map
            /\ OthersUnchanged(unwrap(sess.last_error_fingerprint))
            /\ ActiveRecord(sess').full_trace = ActiveRecord(sess).full_trace \o "\n" \o Fed
            /\ ActiveRecord(sess').occurrences = ActiveRecord(sess).occurrences
            /\ sess'.in_stack_trace
            /\ sess'.last_error_fingerprint = sess.last_error_fingerprint]_vars

\* C7 as stated: while in a trace, a line of stack-frame shape creates no
\* record, adds to no record's occurrences and to none of total_errors,
\* total_warnings and total_info; it only extends the trace of the active
\* record and may give it a location.
C7_FrameNeverCounted ==
    [][(ProcessLineStep /\ sess.in_stack_trace /\ Locals(Fed).is_stack_trace_line) =>
            /\ DOMAIN sess'.error_map = DOMAIN sess.error_map
            /\ \A fp \in DOMAIN sess.error_map :
                  sess'.error_map[fp].occurrences = sess.error_map[fp].occurrences
            /\ sess'.total_errors = sess.total_errors
            /\ sess'.total_warnings = sess.total_warnings
            /\ sess'.total_info = sess.total_info
            /\ OthersUnchanged(unwrap(sess.last_error_fingerprint))
            /\ ActiveRecord(sess').full_trace = ActiveRecord(sess).full_trace \o "\n" \o Fed
            /\ \A f \in DOMAIN ActiveRecord(sess) \ {"full_trace", "file", "line", "column"} :
                  ActiveRecord(sess')[f] = ActiveRecord(sess)[f]]_vars

\* empty, or white space only
Blank(line) == \A i \in 1..Len(line) : CharAt(line, i) \in WhiteSpace

\* C8: a blank line changes total_lines and nothing else of the session:
\* not the trace state, not the active record, no record, no other counter.
C8_BlankLineOnlyCounted ==
    [][(ProcessLineStep /\ Blank(Fed)) =>
            sess' = [sess EXCEPT !.total_lines = @ + 1]]_vars

C8_Witness ==
    /\ history = <<"Error: User 12345 not found", "     ", "    at foo (file.js:10:5)">>
    /\ sess.in_stack_trace
    /\ ActiveRecord(sess).file = Some("file.js")
    /\ ActiveRecord(sess).full_trace =
          "Error: User 12345 not found" \o "\n" \o "    at foo (file.js:10:5)"

\* C9: over every step, each record of the map is still in the map with
\* occurrences not less than before; every record has occurrences >= 1.
C9_OccurrencesNeverDecrease ==
    /\ [](\A fp \in DOMAIN sess.error_map : sess.error_map[fp].occurrences >= 1)
    /\ [][\A fp \in DOMAIN sess.error_map :
            /\ fp \in DOMAIN sess'.error_map
            /\ sess'.error_map[fp].occurrences >= sess.error_map[fp].occurrences]_vars

C9_Witness ==
    /\ Cardinality(DOMAIN sess.error_map) = 1
    /\ \E fp \in DOMAIN sess.error_map : sess.error_map[fp].occurrences = 3

\* a record without its id
WithoutId(e) == [f \in DOMAIN e \ {"id"} |-> e[f]]

\* C10: an error line whose fingerprint is in the map adds 1 to the
\* occurrences of its record, appends the separator and the line to its
\* full_trace and the line's variables to its variables, and changes nothing
\* else of it; one whose fingerprint is not in the map inserts a record with
\* occurrences 1.  parse_log builds the same records from the same lines.
C10_MergeKeepsFirstSeen ==
    /\ [][(ProcessLineStep /\ Locals(Fed).is_error_line) =>
            LET L == Locals(Fed)
                fp == L.fingerprint
            IN  /\ OthersUnchanged(fp)
                /\ IF fp \in DOMAIN sess.error_map
                   THEN sess'.error_map[fp] =
                            [sess.error_map[fp] EXCEPT
                                !.occurrences = @ + 1,
                                !.full_trace = @ \o "\n\n---\n\n" \o Fed,
                                !.variables = @ \o L.variables]
                   ELSE /\ DOMAIN sess'.error_map = DOMAIN sess.error_map \cup {fp}
                        /\ sess'.error_map[fp].occurrences = 1
                        /\ sess'.error_map[fp].full_trace = Fed
                        /\ sess'.error_map[fp].message = L.message
                        /\ sess'.error_map[fp].template = L.template]_vars
    /\ [](ret.op = "parse_log" =>
            {WithoutId(ret.value.errors[k]) : k \in 1..Len(ret.value.errors)}
                = {WithoutId(sess.error_map[fp]) : fp \in DOMAIN sess.error_map})

C10_Witness ==
    /\ history = <<"Error: User 12345 not found", "Error: User 67890 not found">>
    /\ Len(Records(sess)) = 1
    /\ Records(sess)[1].message = "User 12345 not found"
    /\ Records(sess)[1].occurrences = 2
    /\ Records(sess)[1].full_trace =
          "Error: User 12345 not found" \o "\n\n---\n\n" \o "Error: User 67890 not found"
    /\ Len(Records(sess)[1].variables) = 2

\* the records of a result, ids left out, as a set
RecordsOf(result) == {WithoutId(result.errors[k]) : k \in 1..Len(result.errors)}

\* C11 as stated: parse_log of the text of the lines fed returns the summary
\* and the set of records (ids left out) that get_result returns for the
\* session those lines were fed to one by one.
C11_ModesEquivalent ==
    ret.op = "parse_log" =>
        /\ ret.value.summary = get_result(sess).summary
        /\ RecordsOf(ret.value) = RecordsOf(get_result(sess))

\* the session that process_line calls build from self, one call per line
RECURSIVE Replay(_, _)
Replay(self, ls) ==
    IF ls = <<>> THEN self
    ELSE Replay(process_line(self, Head(ls), uuid_new_v4(Len(self.map_keys) + 1)),
                Tail(ls))

\* C12: get_result changes nothing of the session (map, counters, trace
\* state, active record); called again with no process_line in between it
\* returns the same result; and the session is at any time what the
\* process_line calls alone build, however many get_result calls came between.
C12_GetResultReadOnly ==
    /\ [](sess = Replay(LogParser_new(sess.hash_seed), history))
    /\ [](ret.op = "get_result" => ret.value = get_result(sess))
    /\ [][ret'.op = "get_result" =>
            /\ sess' = sess
            /\ ret.op = "get_result" => ret' = ret]_vars

C12_Witness ==
    /\ ret.op = "get_result"
    /\ Len(history) = 3
    /\ Len(ret.value.errors) = 2
    /\ sess.in_stack_trace
    /\ is_some(ActiveRecord(sess).file)
    /\ ret.value.summary.total_lines = 3

\* a result with the ids of its records left out
WithoutIds(result) ==
    [summary |-> result.summary,
     errors |-> [k \in 1..Len(result.errors) |-> WithoutId(result.errors[k])]]

\* C13 as stated: two sessions that were fed the same lines return the same
\* records in the same order (ids left out).
C13_TiesBrokenAlike ==
    history = peer.history =>
        WithoutIds(get_result(sess)).errors = WithoutIds(get_result(peer.sess)).errors

\* C18: however the process_line calls of two sessions are interleaved, the
\* result of each (ids left out) is the result of a session of its own that
\* is fed the same lines alone.
C18_SessionsIndependent ==
    /\ WithoutIds(get_result(sess))
          = WithoutIds(get_result(Replay(LogParser_new(sess.hash_seed), history)))
    /\ WithoutIds(get_result(peer.sess))
          = WithoutIds(get_result(Replay(LogParser_new(peer.sess.hash_seed), peer.history)))
    /\ ret.op = "get_result" =>
          WithoutIds(ret.value)
              = WithoutIds(get_result(Replay(LogParser_new(sess.hash_seed), history)))
    /\ ret.op = "peer_get_result" =>
          WithoutIds(ret.value)
              = WithoutIds(get_result(Replay(LogParser_new(peer.sess.hash_seed), peer.history)))

C18_Witness ==
    /\ ret.op = "peer_get_result"
    /\ history = <<"    at foo (file.js:10:5)", "ERROR code 1">>
    /\ peer.history = <<"Error: User 12345 not found", "    at foo (file.js:10:5)">>
    /\ Len(ret.value.errors) = 1
    /\ ret.value.errors[1].file = Some("file.js")
    /\ is_none(ActiveRecord(sess).file)

\* the class a level keyword stands for
LevelClass(level) ==
    IF level \in {"ERROR", "FATAL", "CRITICAL"} THEN "Error"
    ELSE IF level \in {"WARN", "WARNING"} THEN "Warning"
    ELSE "Info"

\* C14 as stated: a line that begins with a timestamp followed by a level
\* keyword gets the class of that keyword, whatever the text after it says.
C14_LevelDecides ==
    ret.op = "determine_error_type" =>
        \A ts \in ClassifyTimestamps, level \in ClassifyLevels :
            (\/ args.line = ts \o " " \o level
             \/ starts_with(args.line, ts \o " " \o level \o " "))
                => ret.value = LevelClass(level)

\* the triple the fingerprint is specified over
NormalizedTriple(a) ==
    <<to_lowercase(trim(a.template)),
      IF is_some(a.file) THEN unwrap(a.file) ELSE "",
      IF is_some(a.line) THEN unwrap(a.line) ELSE "">>

\* C15: the fingerprint is a function of the normalized triple: a call
\* repeated with the same arguments gives the same value, and so does a call
\* whose template differs only in letter case or in leading or trailing white
\* space, file and line being equal.
C15_FingerprintOfNormalizedTriple ==
    ret.op = "generate_fingerprint" =>
        /\ generate_fingerprint(args.template, args.file, args.line) = ret.value
        /\ \A other \in FingerprintArgs :
              NormalizedTriple(other) = NormalizedTriple(args)
                  => generate_fingerprint(other.template, other.file, other.line) = ret.value

C15_Witness ==
    /\ ret.op = "generate_fingerprint"
    /\ args = [template |-> "  User {ID} not found  ", file |-> Some("file.js"),
               line |-> Some("10")]
    /\ ret.value = generate_fingerprint("USER {ID} NOT FOUND\t", Some("file.js"), Some("10"))
    /\ ret.value # generate_fingerprint("User {ID} not  found", Some("file.js"), Some("10"))
    /\ ret.value # generate_fingerprint("  User {ID} not found  ", Some("File.js"), Some("10"))

\* the variables of one kind among those extracted
VariablesOf(tv, var_type) ==
    SelectSeq(tv.variables, LAMBDA v : v.var_type = var_type)

\* how many times p occurs in s
Occurrences(s, p) == Cardinality({i \in 1..Len(s) : OccursAt(s, p, i)})

\* C16 as stated: no NumericId or IpAddress variable is recorded for text
\* inside a matched uuid, no NumericId variable for an octet of an accepted
\* address, and every matched uuid and accepted address is in the template as
\* one whole {UUID} or {IP} placeholder.
C16_PassesNeverOverlap ==
    ret.op = "extract_template" =>
        LET tv == ret.value
            uuids == VariablesOf(tv, "Uuid")
            ips == VariablesOf(tv, "IpAddress")
            ids == VariablesOf(tv, "NumericId")
        IN  /\ \A u \in 1..Len(uuids), k \in 1..Len(ids) :
                  ~contains(uuids[u].value, ids[k].value)
            /\ \A u \in 1..Len(uuids), k \in 1..Len(ips) :
                  ~contains(uuids[u].value, ips[k].value)
            /\ \A i \in 1..Len(ips), k \in 1..Len(ids) :
                  ~contains(ips[i].value, ids[k].value)
            /\ Occurrences(tv.template, "{UUID}") = Len(uuids)
            /\ Occurrences(tv.template, "{IP}") = Len(ips)
            /\ \A i \in 1..Len(tv.template) :
                  (OccursAt(tv.template, "{UUID}", i) \/ OccursAt(tv.template, "{IP}", i))
                      => LET after == SetMin({k \in i..Len(tv.template) :
                                                CharAt(tv.template, k) = "}"}) + 1
                         IN  CharAt(tv.template, after) \notin Digit

\* the maximal runs of digits of s, in order
RECURSIVE DigitRuns(_)
DigitRuns(s) ==
    IF s = "" THEN <<>>
    ELSE IF Head(s) \notin Digit THEN DigitRuns(Tail(s))
    ELSE LET rest == {k \in 1..Len(s) : CharAt(s, k) \notin Digit}
             stop == IF rest = {} THEN Len(s) + 1 ELSE SetMin(rest)
         IN  <<SubSeq(s, 1, stop - 1)>> \o DigitRuns(SubSeq(s, stop, Len(s)))

ShortRuns(s) == SelectSeq(DigitRuns(s), LAMBDA run : Len(run) < 4)

\* a is b with some elements left out
RECURSIVE IsSubsequence(_, _)
IsSubsequence(a, b) ==
    IF a = <<>> THEN TRUE
    ELSE IF b = <<>> THEN FALSE
    ELSE IF Head(a) = Head(b) THEN IsSubsequence(Tail(a), Tail(b))
    ELSE IsSubsequence(a, Tail(b))

\* the message has a uuid, or an address with every octet at most 255
HasUuidOrAddress(message) ==
    \/ is_match(VAR_UUID, message)
    \/ SelectSeq(captures_iter(VAR_IP, message), is_valid_ip) # <<>>

PartialLocations ==
    ("TypeError: x is null at foo (a.js:4294967296:7)" :> <<Some("a.js"), None, Some("7")>>)
    @@ ("    at foo (file.js:4294967296:5)" :> <<Some("file.js"), None, Some("5")>>)
    @@ ("    at bar (b.js:7:99999999999)" :> <<Some("b.js"), Some("7"), None>>)
    @@ ("    at com.Foo.run(Foo.java:4294967296)" :> <<Some("Foo.java"), None, None>>)

LocationOf(e) == <<e.file, e.line, e.column>>

\* C19: a line whose file can be read but whose line or column number is
\* above u32::MAX is processed like any other: as an error line it creates or
\* merges its record, as a continuation line it is appended to the active
\* record; a record created from it, or one without file backfilled from it,
\* has the file and the number that fits, and only the other number absent.
\* The session goes on counting lines and creating records after it.
C19_PartialLocationKept ==
    /\ [](/\ sess.total_lines = Len(history)
          /\ DOMAIN sess.error_map = FingerprintsFed)
    /\ [][(ProcessLineStep /\ Fed \in DOMAIN PartialLocations) =>
            LET L == Locals(Fed)
                fp == L.fingerprint
                active == unwrap(sess.last_error_fingerprint)
            IN  /\ <<L.file, L.line_num, L.column>> = PartialLocations[Fed]
                /\ sess'.total_lines = sess.total_lines + 1
                /\ L.is_error_line =>
                      /\ fp \in DOMAIN sess'.error_map
                      /\ sess'.error_map[fp].occurrences
                            = IF fp \in DOMAIN sess.error_map
                              THEN sess.error_map[fp].occurrences + 1 ELSE 1
                      /\ fp \notin DOMAIN sess.error_map
                            => LocationOf(sess'.error_map[fp]) = PartialLocations[Fed]
                /\ (~L.is_error_line /\ sess.in_stack_trace) =>
                      /\ DOMAIN sess'.error_map = DOMAIN sess.error_map
                      /\ sess'.error_map[active].full_trace
                            = sess.error_map[active].full_trace \o "\n" \o Fed
                      /\ LocationOf(sess'.error_map[active])
                            = IF is_none(sess.error_map[active].file)
                              THEN PartialLocations[Fed]
                              ELSE LocationOf(sess.error_map[active])]_vars

C19_Witness ==
    /\ history = <<"Error: boom", "    at foo (file.js:4294967296:5)",
                   "TypeError: x is null at foo (a.js:4294967296:7)">>
    /\ ret.op = "get_result"
    /\ ret.value.summary.unique_errors = 2
    /\ {LocationOf(ret.value.errors[k]) : k \in 1..2}
          = {<<Some("file.js"), None, Some("5")>>, <<Some("a.js"), None, Some("7")>>}

\* the result of a parse that met no line
EmptyResult ==
    [summary |-> [total_lines |-> 0, total_errors |-> 0, total_warnings |-> 0,
                  total_info |-> 0, unique_errors |-> 0],
     errors |-> <<>>]

\* C20: parse_log("") returns all five counts 0 and no errors, and so does
\* get_result on a session that was given no line.
C20_EmptyInput ==
    /\ parse_log_content("", sess.hash_seed, 1) = EmptyResult
    /\ (history = <<>> /\ ret.op \in {"get_result", "parse_log"}) => ret.value = EmptyResult

C20_Witness ==
    /\ history = <<>>
    /\ ret.op = "parse_log"
    /\ ret.value.summary.total_lines = 0
    /\ get_result(sess) = ret.value

\* the errors are in order of occurrences, most first, and none of them has
\* fewer occurrences than a record of the map that is not among them
MostFrequentFirst(errors, map) ==
    /\ \A k \in 1..(Len(errors) - 1) : errors[k].occurrences >= errors[k + 1].occurrences
    /\ \A k \in 1..Len(errors) :
          \A fp \in DOMAIN map \ {errors[j].fingerprint : j \in 1..Len(errors)} :
              errors[k].occurrences >= map[fp].occurrences

\* C25: the errors get_result and parse_log return are ordered by
\* occurrences, non-increasing, and every record left out by the truncation
\* to 20 has at most the occurrences of every record returned.
C25_MostFrequentKept ==
    /\ MostFrequentFirst(get_result(sess).errors, sess.error_map)
    /\ ret.op \in {"get_result", "parse_log"}
          => MostFrequentFirst(ret.value.errors, sess.error_map)

C25_Witness ==
    /\ ret.op = "get_result"
    /\ sess.hash_seed = 0
    /\ Len(sess.map_keys) = 22
    /\ sess.error_map[sess.map_keys[22]].occurrences = 2
    /\ ret.value.errors[1].fingerprint = sess.map_keys[22]
    /\ ret.value.errors[20].fingerprint = sess.map_keys[19]

\* a process_line step whose line is not blank, is no error signature and,
\* in a trace, no continuation
OtherLineStep ==
    /\ ProcessLineStep
    /\ ~Blank(Fed)
    /\ ~Locals(Fed).is_error_line
    /\ ~(sess.in_stack_trace /\ Locals(Fed).is_stack_trace_line)

\* C26: such a line leaves the session out of any trace, leaves the records
\* alone, and adds 1 to total_warnings if it has a warning keyword, else 1 to
\* total_info if it has an info keyword, else to no counter; and while the
\* session is out of a trace, a line that is no error signature changes no
\* record, a stack frame included.
C26_OtherLineEndsTrace ==
    /\ [][OtherLineStep =>
            /\ ~sess'.in_stack_trace
            /\ sess'.error_map = sess.error_map
            /\ sess'.total_errors = sess.total_errors
            /\ sess'.total_warnings
                  = sess.total_warnings + (IF is_match(GENERIC_WARN, Fed) THEN 1 ELSE 0)
            /\ sess'.total_info
                  = sess.total_info + (IF ~is_match(GENERIC_WARN, Fed)
                                          /\ is_match(GENERIC_INFO, Fed) THEN 1 ELSE 0)]_vars
    /\ [][(ProcessLineStep /\ ~sess.in_stack_trace /\ ~Locals(Fed).is_error_line) =>
            /\ sess'.error_map = sess.error_map
            /\ ~sess'.in_stack_trace]_vars

C26_Witness ==
    /\ history = <<"Error: boom", "WARN retry INFO", "    at foo (file.js:10:5)">>
    /\ ~sess.in_stack_trace
    /\ sess.total_warnings = 1 /\ sess.total_info = 0
    /\ Records(sess)[1].full_trace = "Error: boom"
    /\ is_none(Records(sess)[1].file)

\* C27: a process_line step leaves the location of a record that has a file
\* as it is, whether the step merges into the record or appends to its
\* trace; a step changes the location of a record only when it feeds a
\* continuation line that yields a file while the session is in the trace of
\* that record and the record has no file, and the location is then the one
\* of the line.
C27_LocationSetOnce ==
    [][ProcessLineStep =>
        \A fp \in DOMAIN sess.error_map :
            LET old == sess.error_map[fp]
                new == sess'.error_map[fp]
                L == Locals(Fed)
            IN  /\ fp \in DOMAIN sess'.error_map
                /\ is_some(old.file) => LocationOf(new) = LocationOf(old)
                /\ LocationOf(new) # LocationOf(old) =>
                      /\ sess.in_stack_trace
                      /\ sess.last_error_fingerprint = Some(fp)
                      /\ ~L.is_error_line
                      /\ L.is_stack_trace_line
                      /\ is_none(old.file)
                      /\ is_some(L.file)
                      /\ LocationOf(new) = <<L.file, L.line_num, L.column>>]_vars

C27_Witness ==
    /\ history = <<Boom, FrameFoo, FrameBar, Boom>>
    /\ Len(Records(sess)) = 1
    /\ Records(sess)[1].occurrences = 2
    /\ LocationOf(Records(sess)[1]) = <<Some("file.js"), Some("10"), Some("5")>>

\* the error-signature line that created the record of fingerprint fp
CreatingLine(fp) ==
    LET ks == {k \in ErrorLineIndexes : Locals(history[k]).fingerprint = fp}
    IN  history[CHOOSE k \in ks : \A j \in ks : k <= j]

\* C29 as stated: the key of every record of the map, which is its
\* fingerprint field, is generate_fingerprint of the template, file and line
\* the record has now.
C29_FingerprintOfCurrentLocation ==
    \A fp \in DOMAIN sess.error_map :
        LET e == sess.error_map[fp]
        IN  /\ e.fingerprint = fp
            /\ fp = generate_fingerprint(e.template, e.file, e.line)

\* C29, amended: the key of every record is its fingerprint field and is
\* generate_fingerprint of the record's template and of the file and line
\* found in the error line that created the record; these are the record's
\* file and line unless that line had no file and a continuation line gave
\* the record its location since, which leaves the fingerprint as it was.
C29_FingerprintOfCreatingLine ==
    \A fp \in DOMAIN sess.error_map :
        LET e == sess.error_map[fp]
            L == Locals(CreatingLine(fp))
        IN  /\ e.fingerprint = fp
            /\ e.template = L.template
            /\ fp = generate_fingerprint(e.template, L.file, L.line_num)
            /\ is_some(L.file) => e.file = L.file /\ e.line = L.line_num
            /\ is_none(L.file) /\ is_none(e.file) => is_none(e.line)

C29_Witness ==
    /\ history = <<Boom, FrameFoo>>
    /\ Records(sess)[1].file = Some("file.js")
    /\ Records(sess)[1].line = Some("10")
    /\ Records(sess)[1].fingerprint = generate_fingerprint(Records(sess)[1].template, None, None)
    /\ Records(sess)[1].fingerprint
          # generate_fingerprint(Records(sess)[1].template, Some("file.js"), Some("10"))

\* the occurrences of a list of records, added up
RECURSIVE SumOccurrences(_)
SumOccurrences(errors) ==
    IF errors = <<>> THEN 0 ELSE Head(errors).occurrences + SumOccurrences(Tail(errors))

\* the error-signature lines fed so far that determine_error_type takes for
\* a given class
ErrorLinesOfType(error_type) ==
    {k \in ErrorLineIndexes : Locals(history[k]).error_type = error_type}

\* C30 as stated: every record of the map, and of what get_result and
\* parse_log return, has error_type Error, and total_errors is the sum of the
\* occurrences of the records.
C30_OnlyErrorsRecorded ==
    /\ \A fp \in DOMAIN sess.error_map : sess.error_map[fp].error_type = "Error"
    /\ ret.op \in {"get_result", "parse_log"} =>
          \A k \in 1..Len(ret.value.errors) : ret.value.errors[k].error_type = "Error"
    /\ sess.total_errors = SumOccurrences(Records(sess))

\* C30, amended: every record has the error_type determine_error_type gives
\* the error-signature line that created it, which is Warning or Info for a
\* line of exception shape under such a level; the occurrences of the
\* records add up to the number of error-signature lines fed, and
\* total_errors is the number of those that are classified Error, the others
\* being counted in total_warnings and total_info.
C30_RecordsKeepLineClass ==
    /\ \A fp \in DOMAIN sess.error_map :
          sess.error_map[fp].error_type = Locals(CreatingLine(fp)).error_type
    /\ SumOccurrences(Records(sess)) = Cardinality(ErrorLineIndexes)
    /\ sess.total_errors = Cardinality(ErrorLinesOfType("Error"))
    /\ sess.total_warnings >= Cardinality(ErrorLinesOfType("Warning"))
    /\ sess.total_info >= Cardinality(ErrorLinesOfType("Info"))
    /\ ret.op = "get_result" =>
          \A k \in 1..Len(ret.value.errors) :
              ret.value.errors[k] = sess.error_map[ret.value.errors[k].fingerprint]

C30_Witness ==
    /\ history = <<"2025-05-27 00:40:12 INFO [main] Error: handled", "Error: handled">>
    /\ Len(Records(sess)) = 1
    /\ Records(sess)[1].error_type = "Info"
    /\ Records(sess)[1].occurrences = 2
    /\ sess.total_errors = 1
    /\ sess.total_info = 1

-----------------------------------------------------------------------------
(***************************************************************************)
(* The pattern learner and the similarity clusterer                        *)
(* (parser-wasm/src/pattern_learning.rs).                                  *)
(*                                                                         *)
(* A String is counted in characters by chars() and in bytes by len(); the *)
(* characters beyond ASCII that the model uses take two bytes in UTF-8.    *)
(* An f32 is modelled by the rational it approximates, as the pair of a    *)
(* numerator and a positive denominator in lowest terms; on the strings    *)
(* and thresholds of the model no comparison the code makes is between two *)
(* values closer than the f32 rounding error, but for equal rationals.     *)
(***************************************************************************)

\* the printable ASCII characters in code order: U+0020 to U+005F, and
\* U+0061 to U+007E
ASCII_TO_5F ==
    " !\"#$%&'()*+,-./0123456789:;<=>?@ABCDEFGHIJKLMNOPQRSTUVWXYZ[\\]^_"
ASCII_FROM_61 == "abcdefghijklmnopqrstuvwxyz{|}~"

\* a rank that orders characters as their UTF-8 bytes do; U+00E9 is the
\* character beyond ASCII of the model
code_point(ch) ==
    IF \E i \in 1..Len(ASCII_TO_5F) : CharAt(ASCII_TO_5F, i) = ch
    THEN 31 + (CHOOSE i \in 1..Len(ASCII_TO_5F) : CharAt(ASCII_TO_5F, i) = ch)
    ELSE IF \E i \in 1..Len(ASCII_FROM_61) : CharAt(ASCII_FROM_61, i) = ch
    THEN 96 + (CHOOSE i \in 1..Len(ASCII_FROM_61) : CharAt(ASCII_FROM_61, i) = ch)
    ELSE 233

\* char::len_utf8
len_utf8(ch) == IF code_point(ch) < 128 THEN 1 ELSE 2

\* str::len: the length in bytes
RECURSIVE len(_)
len(s) == IF s = "" THEN 0 ELSE len_utf8(Head(s)) + len(Tail(s))

\* Ord for str: lexicographic on the bytes
RECURSIVE str_lt(_, _)
str_lt(a, b) ==
    IF b = "" THEN FALSE
    ELSE IF a = "" THEN TRUE
    ELSE IF Head(a) = Head(b) THEN str_lt(Tail(a), Tail(b))
    ELSE code_point(Head(a)) < code_point(Head(b))

\* Vec<String>::sort
RECURSIVE sort(_)
sort(v) ==
    IF v = <<>> THEN <<>>
    ELSE LET rest == sort(Tail(v))
             before == SelectSeq(rest, LAMBDA s : str_lt(s, Head(v)))
             after == SelectSeq(rest, LAMBDA s : ~str_lt(s, Head(v)))
         IN  before \o <<Head(v)>> \o after

\* Vec::dedup left out
dedup_forgotten(v) == v

\* Vec::dedup: of each run of equal neighbours the first is kept
RECURSIVE dedup(_)
dedup(v) ==
    IF Len(v) < 2 THEN v
    ELSE IF v[1] = v[2] THEN dedup(Tail(v))
    ELSE <<v[1]>> \o dedup(Tail(v))

\* f applied to the value of x, which is computed once
WithValue(x, f(_)) == CHOOSE y \in {f(v) : v \in {x}} : TRUE

usize_max(a, b) == IF a >= b THEN a ELSE b
usize_min(a, b) == IF a <= b THEN a ELSE b

RECURSIVE gcd(_, _)
gcd(a, b) == IF b = 0 THEN a ELSE gcd(b, a % b)

\* f32 values: n / d with d > 0, in lowest terms
f32(n, d) == LET g == gcd(n, d) IN IF n = 0 THEN <<0, 1>> ELSE <<n \div g, d \div g>>
f32_add(x, y) == f32(x[1] * y[2] + y[1] * x[2], x[2] * y[2])
f32_mul(x, y) == f32(x[1] * y[1], x[2] * y[2])
f32_div(x, y) == f32(x[1] * y[2], x[2] * y[1])
f32_lt(x, y) == x[1] * y[2] < y[1] * x[2]
f32_ge(x, y) == ~f32_lt(x, y)
f32_min(x, y) == IF f32_lt(y, x) THEN y ELSE x
f32_max(x, y) == IF f32_lt(x, y) THEN y ELSE x

\* a loop: the state after n passes through its body
RECURSIVE Repeat(_, _, _)
Repeat(body(_), state, n) ==
    IF n = 0 THEN state
    ELSE IF n = 1 THEN body(state)
    ELSE WithValue(Repeat(body, state, n \div 2),
                   LAMBDA half : Repeat(body, half, n - n \div 2))

\* one row of the table of lcs_two_strings, the loop for j in 1..=n:
\* dp[i][0..n] from prev = dp[i-1][0..n], column j at index j + 1
lcs_row(prev, ch, b) ==
    LET cell(row) ==
            LET j == Len(row)
            IN  Append(row, IF ch = CharAt(b, j) THEN prev[j] + 1
                            ELSE usize_max(prev[j + 1], row[j]))
    IN  Repeat(cell, <<0>>, Len(b))

\* the table of lcs_two_strings, the loop for i in 1..=m: the rows dp[0..m],
\* row i at index i + 1
lcs_dp(a, b) ==
    LET fill(dp) == Append(dp, lcs_row(dp[Len(dp)], CharAt(a, Len(dp)), b))
    IN  Repeat(fill, <<[j \in 1..(Len(b) + 1) |-> 0]>>, Len(a))

\* the backtrack of lcs_two_strings, the loop while i > 0 && j > 0, which
\* ends within m + n passes
lcs_backtrack(dp, a, b) ==
    LET pass(at) ==
            IF at.i = 0 \/ at.j = 0 THEN at
            ELSE IF CharAt(a, at.i) = CharAt(b, at.j)
            THEN [i |-> at.i - 1, j |-> at.j - 1, lcs |-> CharAt(a, at.i) \o at.lcs]
            ELSE IF dp[at.i][at.j + 1] > dp[at.i + 1][at.j]
            THEN [at EXCEPT !.i = @ - 1]
            ELSE [at EXCEPT !.j = @ - 1]
    IN  Repeat(pass, [i |-> Len(a), j |-> Len(b), lcs |-> ""], Len(a) + Len(b)).lcs

\* lcs_two_strings(a, b)
lcs_two_strings(a, b) == WithValue(lcs_dp(a, b), LAMBDA dp : lcs_backtrack(dp, a, b))

\* the loop of compute_multi_lcs over strings[1..], with its early exit
RECURSIVE multi_lcs_fold(_, _)
multi_lcs_fold(result, strings) ==
    IF strings = <<>> THEN result
    ELSE WithValue(lcs_two_strings(result, Head(strings)),
                   LAMBDA next : IF len(next) < 5 THEN next
                                 ELSE multi_lcs_fold(next, Tail(strings)))

\* compute_multi_lcs(strings)
compute_multi_lcs(strings) ==
    IF strings = <<>> THEN ""
    ELSE IF Len(strings) = 1 THEN strings[1]
    ELSE multi_lcs_fold(strings[1], Tail(strings))

\* one row of the table of levenshtein_distance: dp[i][0..n], dp[i][0] = i
lev_row(prev, ch, b, i) ==
    LET cell(row) ==
            LET j == Len(row)
                cost == IF ch = CharAt(b, j) THEN 0 ELSE 1
            IN  Append(row, usize_min(usize_min(prev[j + 1] + 1, row[j] + 1),
                                      prev[j] + cost))
    IN  Repeat(cell, <<i>>, Len(b))

\* the table of levenshtein_distance, dp[0][j] = j
lev_dp(a, b) ==
    LET fill(dp) == Append(dp, lev_row(dp[Len(dp)], CharAt(a, Len(dp)), b, Len(dp)))
    IN  Repeat(fill, <<[j \in 1..(Len(b) + 1) |-> j - 1]>>, Len(a))

\* levenshtein_distance(a, b)
levenshtein_distance(a, b) ==
    LET m == Len(a)
        n == Len(b)
    IN  IF m = 0 THEN n
        ELSE IF n = 0 THEN m
        ELSE WithValue(lev_dp(a, b), LAMBDA dp : dp[m + 1][n + 1])

\* similarity_score(a, b)
similarity_score(a, b) ==
    LET max_len == usize_max(len(a), len(b))
    IN  IF max_len = 0 THEN <<1, 1>>
        ELSE WithValue(levenshtein_distance(a, b),
                       LAMBDA distance : f32(max_len - distance, max_len))


\* the for loop of build_template_from_lcs over the characters of the
\* example; read counts the characters taken so far
template_scan(lcs, example) ==
    LET pass(at) ==
            LET ch == CharAt(example, at.read + 1)
            IN  IF at.lcs_idx < Len(lcs) /\ ch = CharAt(lcs, at.lcs_idx + 1)
                THEN [read |-> at.read + 1,
                      lcs_idx |-> at.lcs_idx + 1,
                      in_variable |-> FALSE,
                      result |-> (IF at.in_variable THEN at.result \o "{VAR}"
                                  ELSE at.result) \o ch]
                ELSE [at EXCEPT !.read = @ + 1, !.in_variable = TRUE]
        finish(at) == IF at.in_variable THEN at.result \o "{VAR}" ELSE at.result
    IN  finish(Repeat(pass, [read |-> 0, lcs_idx |-> 0, in_variable |-> FALSE, result |-> ""],
                      Len(example)))

\* while result.contains("{VAR}{VAR}") { result = result.replace(..) }
RECURSIVE collapse_vars(_)
collapse_vars(result) ==
    IF contains(result, "{VAR}{VAR}")
    THEN collapse_vars(replace(result, "{VAR}{VAR}", "{VAR}"))
    ELSE result

\* build_template_from_lcs(lcs, example)
build_template_from_lcs(lcs, example) ==
    IF lcs = "" THEN "{VAR}"
    ELSE collapse_vars(template_scan(lcs, example))

\* the inner loop of extract_variable_segments: the segments of one example
\* pushed after those found before
segment_scan(lcs, example, segments) ==
    LET pass(at) ==
            LET ch == CharAt(example, at.read + 1)
            IN  IF at.lcs_idx < Len(lcs) /\ ch = CharAt(lcs, at.lcs_idx + 1)
                THEN [read |-> at.read + 1,
                      lcs_idx |-> at.lcs_idx + 1,
                      current_segment |-> "",
                      segments |-> IF at.current_segment # ""
                                   THEN Append(at.segments, at.current_segment)
                                   ELSE at.segments]
                ELSE [at EXCEPT !.read = @ + 1, !.current_segment = @ \o ch]
        finish(at) ==
            IF at.current_segment # "" THEN Append(at.segments, at.current_segment)
            ELSE at.segments
    IN  finish(Repeat(pass, [read |-> 0, lcs_idx |-> 0, current_segment |-> "",
                             segments |-> segments],
                      Len(example)))

RECURSIVE segments_of_all(_, _, _)
segments_of_all(examples, lcs, segments) ==
    IF examples = <<>> THEN segments
    ELSE WithValue(segment_scan(lcs, Head(examples), segments),
                   LAMBDA next : segments_of_all(Tail(examples), lcs, next))

\* extract_variable_segments(examples, lcs)
extract_variable_segments(examples, lcs) ==
    dedup(sort(segments_of_all(examples, lcs, <<>>)))

\* regex::escape: a backslash before every meta character
RECURSIVE regex_escape(_)
regex_escape(text) ==
    IF text = "" THEN ""
    ELSE (IF Head(text) \in CharsOf("\\.+*?()|[]{}^$#&-~") THEN "\\" ELSE "")
            \o Head(text) \o regex_escape(Tail(text))

\* build_regex_from_template(template)
build_regex_from_template(template) ==
    "^" \o replace(regex_escape(template), "\\{VAR\\}", ".*?") \o "$"

\* Regex::new on a pattern of build_regex_from_template: ^ and $ are the
\* ends of the text, a backslash makes the next character a literal, .*? is
\* the lazy run of characters other than line feed, any other character is
\* itself
Regex_new(pattern) ==
    LET literal(nodes, ch) ==
            IF nodes # <<>> /\ nodes[Len(nodes)].t = "lit"
            THEN [nodes EXCEPT ![Len(nodes)] = Lit(@.s \o ch)]
            ELSE Append(nodes, Lit(ch))
        node(at) ==
            LET ch == CharAt(pattern, at.i)
            IN  IF at.i > Len(pattern) THEN at
                ELSE IF ch = "\\"
                THEN [i |-> at.i + 2, nodes |-> literal(at.nodes, CharAt(pattern, at.i + 1))]
                ELSE IF ch = "^" THEN [i |-> at.i + 1, nodes |-> Append(at.nodes, Bol)]
                ELSE IF ch = "$" THEN [i |-> at.i + 1, nodes |-> Append(at.nodes, Eol)]
                ELSE IF at.i + 2 <= Len(pattern) /\ SubSeq(pattern, at.i, at.i + 2) = ".*?"
                THEN [i |-> at.i + 3, nodes |-> Append(at.nodes, LazyStar(AnyChar))]
                ELSE IF ch = "." THEN [i |-> at.i + 1, nodes |-> Append(at.nodes, AnyChar)]
                ELSE [i |-> at.i + 1, nodes |-> literal(at.nodes, ch)]
    IN  Regex(Cat(Repeat(node, [i |-> 1, nodes |-> <<>>], Len(pattern)).nodes),
              0, FALSE, FALSE)

\* str::split_whitespace: the maximal runs of characters that are not
\* White_Space; word is the run being read
RECURSIVE split_whitespace(_, _)
split_whitespace(s, word) ==
    IF s = "" THEN (IF word = "" THEN <<>> ELSE <<word>>)
    ELSE IF Head(s) \in WhiteSpace
    THEN (IF word = "" THEN <<>> ELSE <<word>>) \o split_whitespace(Tail(s), "")
    ELSE split_whitespace(Tail(s), word \o Head(s))

\* split_by_lcs(lcs)
split_by_lcs(lcs) == SelectSeq(split_whitespace(lcs, ""), LAMBDA s : s # "")

\* the sum of the byte lengths of the examples
RECURSIVE sum_len(_)
sum_len(examples) ==
    IF examples = <<>> THEN 0 ELSE len(Head(examples)) + sum_len(Tail(examples))

\* the two nested loops of calculate_confidence: total_similarity over the
\* pairs i < j
RECURSIVE total_similarity(_, _, _)
total_similarity(examples, i, j) ==
    IF i > Len(examples) THEN <<0, 1>>
    ELSE IF j > Len(examples) THEN total_similarity(examples, i + 1, i + 2)
    ELSE f32_add(similarity_score(examples[i], examples[j]),
                 total_similarity(examples, i, j + 1))

\* calculate_confidence whose penalty falls on the long backbones
calculate_confidence_penalty_inverted(examples, lcs) ==
    IF examples = <<>> \/ lcs = "" THEN <<0, 1>>
    ELSE LET avg_length == f32_div(f32(sum_len(examples), 1), f32(Len(examples), 1))
             lcs_coverage == f32_div(f32(len(lcs), 1), avg_length)
             count == (Len(examples) * (Len(examples) - 1)) \div 2
             avg_similarity ==
                 IF count > 0
                 THEN f32_div(total_similarity(examples, 1, 2), f32(count, 1))
                 ELSE <<0, 1>>
             length_penalty == IF len(lcs) >= 5 THEN <<1, 2>> ELSE <<1, 1>>
             confidence ==
                 f32_mul(f32_add(f32_mul(lcs_coverage, <<1, 2>>),
                                 f32_mul(avg_similarity, <<1, 2>>)),
                         length_penalty)
         IN  f32_max(f32_min(confidence, <<1, 1>>), <<0, 1>>)

\* calculate_confidence(examples, lcs)
calculate_confidence(examples, lcs) ==
    IF examples = <<>> \/ lcs = "" THEN <<0, 1>>
    ELSE LET avg_length == f32_div(f32(sum_len(examples), 1), f32(Len(examples), 1))
             lcs_coverage == f32_div(f32(len(lcs), 1), avg_length)
             count == (Len(examples) * (Len(examples) - 1)) \div 2
             avg_similarity ==
                 IF count > 0
                 THEN f32_div(total_similarity(examples, 1, 2), f32(count, 1))
                 ELSE <<0, 1>>
             length_penalty == IF len(lcs) < 5 THEN <<1, 2>> ELSE <<1, 1>>
             confidence ==
                 f32_mul(f32_add(f32_mul(lcs_coverage, <<1, 2>>),
                                 f32_mul(avg_similarity, <<1, 2>>)),
                         length_penalty)
         IN  f32_max(f32_min(confidence, <<1, 1>>), <<0, 1>>)

\* struct DetectedPattern
DetectedPattern(template, regex, confidence, variable_segments, common_parts) ==
    [template |-> template,
     regex |-> regex,
     confidence |-> confidence,
     variable_segments |-> variable_segments,
     common_parts |-> common_parts]

\* pattern_of without the confidence < 0.5 test
pattern_of_any_confidence(unique_examples, lcs) ==
    LET avg_len == sum_len(unique_examples) \div Len(unique_examples)
    IN  IF len(lcs) < usize_max(avg_len \div 10, 3) THEN None
        ELSE WithValue(build_template_from_lcs(lcs, unique_examples[1]),
                 LAMBDA template :
                     Some(DetectedPattern(template,
                                          build_regex_from_template(template),
                                          calculate_confidence(unique_examples, lcs),
                                          extract_variable_segments(unique_examples, lcs),
                                          split_by_lcs(lcs))))

\* detect_pattern_lcs from the backbone on
pattern_of(unique_examples, lcs) ==
    LET avg_len == sum_len(unique_examples) \div Len(unique_examples)
        pattern(template, confidence) ==
            IF f32_lt(confidence, <<1, 2>>) THEN None
            ELSE Some(DetectedPattern(template,
                                      build_regex_from_template(template),
                                      confidence,
                                      extract_variable_segments(unique_examples, lcs),
                                      split_by_lcs(lcs)))
    IN  IF len(lcs) < usize_max(avg_len \div 10, 3) THEN None
        ELSE WithValue(build_template_from_lcs(lcs, unique_examples[1]),
                 LAMBDA template :
                     WithValue(calculate_confidence(unique_examples, lcs),
                               LAMBDA confidence : pattern(template, confidence)))

\* detect_pattern_lcs without the sort: dedup drops adjacent copies only
detect_pattern_lcs_unsorted(examples) ==
    IF Len(examples) < 2 THEN None
    ELSE WithValue(dedup(examples),
             LAMBDA unique_examples :
                 IF Len(unique_examples) < 2 THEN None
                 ELSE WithValue(compute_multi_lcs(unique_examples),
                                LAMBDA lcs : pattern_of(unique_examples, lcs)))

\* detect_pattern_lcs(examples)
detect_pattern_lcs(examples) ==
    IF Len(examples) < 2 THEN None
    ELSE WithValue(dedup(sort(examples)),
             LAMBDA unique_examples :
                 IF Len(unique_examples) < 2 THEN None
                 ELSE WithValue(compute_multi_lcs(unique_examples),
                                LAMBDA lcs : pattern_of(unique_examples, lcs)))

\* first_similar with similarity > threshold
first_similar_strictly(clusters, error, threshold) ==
    LET found == {k \in 1..Len(clusters) :
                     f32_lt(threshold, similarity_score(error, clusters[k][1]))}
    IN  IF found = {} THEN 0 ELSE CHOOSE k \in found : \A other \in found : k <= other

\* first_similar without the break: the last similar cluster is taken
first_similar_last(clusters, error, threshold) ==
    LET found == {k \in 1..Len(clusters) :
                     f32_ge(similarity_score(error, clusters[k][1]), threshold)}
    IN  IF found = {} THEN 0 ELSE CHOOSE k \in found : \A other \in found : k >= other

\* the inner loop of cluster_by_similarity: the index of the first cluster
\* whose first member is similar enough to error, 0 if there is none
first_similar(clusters, error, threshold) ==
    LET found == {k \in 1..Len(clusters) :
                     f32_ge(similarity_score(error, clusters[k][1]), threshold)}
    IN  IF found = {} THEN 0 ELSE CHOOSE k \in found : \A other \in found : k <= other

RECURSIVE cluster_fold(_, _, _)
cluster_fold(errors, threshold, clusters) ==
    IF errors = <<>> THEN clusters
    ELSE LET place(k) ==
                 IF k = 0 THEN Append(clusters, <<Head(errors)>>)
                 ELSE [clusters EXCEPT ![k] = Append(@, Head(errors))]
         IN  WithValue(place(first_similar(clusters, Head(errors), threshold)),
                       LAMBDA next : cluster_fold(Tail(errors), threshold, next))

\* cluster_by_similarity(errors, threshold)
cluster_by_similarity(errors, threshold) == cluster_fold(errors, threshold, <<>>)


\* the lists of at most n elements of a set
Lists(elements, n) == UNION {[1..k -> elements] : k \in 0..n}

\* examples: near-identical messages, short strings, long lines, text
\* beyond ASCII, a message that is a subsequence of the others
DetectFamilies ==
    {{"Connection to 10.0.0.1 failed", "Connection to 10.0.0.2 failed", "connection reset"},
     {"User 12345 not found", "User 67890 not found", "User 99999 not found"},
     {"abc", "abcd1", "abcd2"},
     {"timeout after 30000 ms while reading block 7",
      "timeout after 45000 ms while reading block 9",
      "########################################300"},
     {"ééé1", "ééé2", "éé3"},
     {"disk full", "disk is full", "disk was full"}}

DetectExamples == UNION {Lists(family, MaxExamples) : family \in DetectFamilies}

DetectPatternLcs ==
    /\ ret.op = "new"
    /\ ret' = Returned("detect_pattern_lcs", detect_pattern_lcs(args.examples))
    /\ UNCHANGED <<sess, history, peer, args>>

SpecDetect ==
    InitCall({[examples |-> examples] : examples \in DetectExamples}) /\ [][DetectPatternLcs]_vars

ClusterVocabulary == {"abc", "abd", "xbd", "xyz", "", "é"}

\* thresholds that an f32 holds exactly
Thresholds == {<<0, 1>>, <<1, 4>>, <<1, 2>>, <<3, 4>>, <<1, 1>>}

ClusterBySimilarity ==
    /\ ret.op = "new"
    /\ ret' = Returned("cluster_by_similarity",
                       cluster_by_similarity(args.errors, args.threshold))
    /\ UNCHANGED <<sess, history, peer, args>>

SpecCluster ==
    InitCall({[errors |-> errors, threshold |-> threshold] :
                 errors \in Lists(ClusterVocabulary, MaxErrors), threshold \in Thresholds})
        /\ [][ClusterBySimilarity]_vars


-----------------------------------------------------------------------------
(***************************************************************************)
(* Properties of the pattern learner and of the similarity clusterer.      *)
(***************************************************************************)

\* the strings of a list, and how many times a list holds a string
Distinct(list) == {list[k] : k \in 1..Len(list)}
CountIn(list, s) == Cardinality({k \in 1..Len(list) : list[k] = s})

\* the members of all groups, group after group
RECURSIVE Flatten(_)
Flatten(groups) == IF groups = <<>> THEN <<>> ELSE Head(groups) \o Flatten(Tail(groups))

\* what C21 says of the groups returned for errors and threshold, but for the
\* number of groups at threshold 0
ClusterBoundaries(errors, threshold, groups) ==
    /\ (errors = <<"abc", "abc", "xyz">> /\ threshold = <<1, 1>>)
          => groups = << <<"abc", "abc">>, <<"xyz">> >>
    /\ threshold = <<1, 1>> =>
          \A g \in 1..Len(groups) : \A k \in 1..Len(groups[g]) :
              similarity_score(groups[g][k], groups[g][1]) = <<1, 1>>

\* C21 as stated: the example, only strings at similarity 1 to the first
\* member of a group join it at threshold 1.0, and at threshold 0.0 every
\* list gives a single group that is the list.
C21_ClusteringBoundaries ==
    ret.op = "cluster_by_similarity" =>
        /\ ClusterBoundaries(args.errors, args.threshold, ret.value)
        /\ args.threshold = <<0, 1>> => ret.value = <<args.errors>>

\* C21, amended: the same, the single group at threshold 0.0 being returned
\* for every list that is not empty; the empty list gives no group.
C21_BoundariesOfNonEmptyLists ==
    ret.op = "cluster_by_similarity" =>
        /\ ClusterBoundaries(args.errors, args.threshold, ret.value)
        /\ args.threshold = <<0, 1>> =>
              ret.value = IF args.errors = <<>> THEN <<>> ELSE <<args.errors>>

C21_Witness ==
    /\ ret.op = "cluster_by_similarity"
    /\ args.errors = <<"abc", "abc", "xyz">>
    /\ args.threshold = <<1, 1>>
    /\ ret.value = << <<"abc", "abc">>, <<"xyz">> >>

\* C22: detect_pattern_lcs returns None for examples with fewer than two
\* distinct strings: no example, one, or copies of one string.
C22_TooFewExamples ==
    (ret.op = "detect_pattern_lcs" /\ Cardinality(Distinct(args.examples)) < 2)
        => is_none(ret.value)

C22_Witness ==
    /\ ret.op = "detect_pattern_lcs"
    /\ args.examples = <<"abc", "abc", "abc">>
    /\ is_none(ret.value)

\* the backbone of a pattern: its template without the markers
Backbone(pattern) == replace(pattern.template, "{VAR}", "")

\* the least backbone length accepted for these examples: max(3, avg / 10),
\* the average and its tenth being the integer quotients of the byte lengths
LeastBackbone(unique_examples) ==
    usize_max(3, (sum_len(unique_examples) \div Len(unique_examples)) \div 10)

SuppressionPolicy(unique_examples, lcs, confidence, result) ==
    /\ is_some(result) =>
          /\ f32_ge(unwrap(result).confidence, <<1, 2>>)
          /\ f32_ge(<<1, 1>>, unwrap(result).confidence)
          /\ unwrap(result).confidence = confidence
          /\ Backbone(unwrap(result)) = lcs
          /\ len(Backbone(unwrap(result))) >= LeastBackbone(unique_examples)
    /\ (len(lcs) < LeastBackbone(unique_examples) \/ f32_lt(confidence, <<1, 2>>))
          => is_none(result)

\* C23: a pattern that detect_pattern_lcs returns has a confidence from 0.5
\* to 1 and a backbone of at least max(3, average example length / 10)
\* bytes; when the backbone of the distinct examples is shorter than that, or
\* their confidence is below 0.5, None is returned.
C23_SuppressionPolicy ==
    (ret.op = "detect_pattern_lcs" /\ Cardinality(Distinct(args.examples)) >= 2) =>
        LET policy(unique_examples) ==
                LET with(lcs) ==
                        SuppressionPolicy(unique_examples, lcs,
                                          calculate_confidence(unique_examples, lcs),
                                          ret.value)
                IN  with(compute_multi_lcs(unique_examples))
        IN  policy(dedup(sort(args.examples)))

C23_Witness ==
    /\ ret.op = "detect_pattern_lcs"
    /\ args.examples = <<"Connection to 10.0.0.1 failed", "connection reset">>
    /\ is_none(ret.value)
    /\ compute_multi_lcs(args.examples) = "onnection e"
    /\ calculate_confidence(args.examples, "onnection e") = <<1133, 2610>>

ConnectionExamples == {"Connection to 10.0.0.1 failed", "Connection to 10.0.0.2 failed"}
UserExamples == {"User 12345 not found", "User 67890 not found", "User 99999 not found"}

\* C24: for the two Connection examples and for the three User examples,
\* detect_pattern_lcs returns a pattern whose template contains {VAR} and
\* whose confidence is above 0.7.
C24_VariableSegmentFound ==
    (ret.op = "detect_pattern_lcs"
        /\ Distinct(args.examples) \in {ConnectionExamples, UserExamples}) =>
        /\ is_some(ret.value)
        /\ contains(unwrap(ret.value).template, "{VAR}")
        /\ f32_lt(<<7, 10>>, unwrap(ret.value).confidence)

C24_Witness ==
    /\ ret.op = "detect_pattern_lcs"
    /\ args.examples = <<"User 12345 not found", "User 67890 not found", "User 99999 not found">>
    /\ is_some(ret.value)
    /\ unwrap(ret.value).template = "User {VAR} not found"
    /\ unwrap(ret.value).confidence = <<91, 120>>


\* C28: the groups cluster_by_similarity returns hold every input string as
\* many times as the input does, none is empty, the members of a group and
\* the first members of the groups are in input order, every later member of
\* a group has similarity >= threshold to the first member of its group and
\* < threshold to the first member of every group before it, and the first
\* member of a group has similarity < threshold to that of every group
\* before it.
C28_OrderedPartition ==
    ret.op = "cluster_by_similarity" =>
        LET partition(errors, threshold, groups) ==
                /\ \A s \in Distinct(errors) \cup Distinct(Flatten(groups)) :
                      CountIn(Flatten(groups), s) = CountIn(errors, s)
                /\ \A g \in 1..Len(groups) :
                      /\ groups[g] # <<>>
                      /\ IsSubsequence(groups[g], errors)
                      /\ \A k \in 2..Len(groups[g]) :
                            /\ f32_ge(similarity_score(groups[g][k], groups[g][1]), threshold)
                            /\ \A h \in 1..(g - 1) :
                                  f32_lt(similarity_score(groups[g][k], groups[h][1]), threshold)
                      /\ \A h \in 1..(g - 1) :
                            f32_lt(similarity_score(groups[g][1], groups[h][1]), threshold)
                /\ IsSubsequence([g \in 1..Len(groups) |-> groups[g][1]], errors)
        IN  partition(args.errors, args.threshold, ret.value)

C28_Witness ==
    /\ ret.op = "cluster_by_similarity"
    /\ args.errors = <<"abc", "xbd", "abd">>
    /\ args.threshold = <<1, 2>>
    /\ ret.value = << <<"abc", "abd">>, <<"xbd">> >>

\* the characters of a are characters of b in the same order: walking b,
\* matched is how many characters of a have been found
CommonSubsequence(a, b) ==
    LET walk(at) ==
            [k |-> at.k + 1,
             matched |-> IF at.matched < Len(a)
                            /\ CharAt(a, at.matched + 1) = CharAt(b, at.k)
                         THEN at.matched + 1 ELSE at.matched]
    IN  Repeat(walk, [k |-> 1, matched |-> 0], Len(b)).matched = Len(a)

\* C31: a pattern that detect_pattern_lcs returns has a backbone that is a
\* common subsequence of every distinct example, and its regex matches every
\* distinct example.
C31_MatcherCoversExamples ==
    (ret.op = "detect_pattern_lcs" /\ is_some(ret.value)) =>
        LET covers(backbone, matcher) ==
                \A example \in Distinct(args.examples) :
                    /\ CommonSubsequence(backbone, example)
                    /\ is_match(matcher, example)
        IN  covers(Backbone(unwrap(ret.value)), Regex_new(unwrap(ret.value).regex))

\* one list of the elements of a set, each once
RECURSIVE OneListOf(_)
OneListOf(set) ==
    IF set = {} THEN <<>>
    ELSE LET some == CHOOSE element \in set : TRUE
         IN  <<some>> \o OneListOf(set \ {some})

\* C32: detect_pattern_lcs returns the same result, None or a pattern with
\* the same template, regex, confidence, variable segments and common parts,
\* for any two example lists with the same set of distinct examples,
\* whatever their order and however often an example is repeated: for every
\* list it returns what it returns for one list, fixed for the set, that holds
\* each distinct example once.
C32_SetOfExamplesDecides ==
    ret.op = "detect_pattern_lcs" =>
        ret.value = detect_pattern_lcs(OneListOf(Distinct(args.examples)))

C32_Witness ==
    /\ ret.op = "detect_pattern_lcs"
    /\ args.examples = <<"disk was full", "disk is full", "disk was full">>
    /\ is_some(ret.value)
    /\ unwrap(ret.value).template = "disk {VAR}s full"
    /\ unwrap(ret.value).regex = "^disk .*?s full$"
    /\ ret.value = detect_pattern_lcs(<<"disk is full", "disk was full">>)

=============================================================================
